---- MODULE Spec2Model ----
(***************************************************************************)
(* A model of the locking core of jo12bar_os: TicketLock and RwTicketLock  *)
(* (mem-util/src/sync/ticket_lock.rs) together with the per-core interrupt *)
(* bookkeeping of CoreLocals (jo12bar-os-kernel/src/core_locals.rs).       *)
(*                                                                         *)
(* An execution context ("thread") is a pair <<core, level>>: level 0 is   *)
(* the core's normal code, level k > 0 its k-th nested interrupt handler.  *)
(* Only the context at the core's current level runs.  Every atomic memory *)
(* operation of the code is one step; all atomics are treated as           *)
(* sequentially consistent.                                                *)
(***************************************************************************)
EXTENDS Integers, Sequences, FiniteSets, TLC

\* ------------------------------------------------------------------ bounds
NCores == 2
MaxLevel == 1
MaxTicket == 3
MaxUnderflow == 1
MaxReadGuards == 1
MaxBootLocks == 1
MaxInitCalls == 2

\* ------------------------------------------------------ program constants
\* CORE_ID_COUNTER, CORE_READY_COUNT and boot_lock are AtomicU8.
U8Range == 256

\* TicketLock::owner starts as !0 (an AtomicU16): no core holds the lock.
NoOwner == 65535

Cores == 0 .. (NCores - 1)
Levels == 0 .. MaxLevel
Threads == Cores \X Levels

TicketLocks == {"T1", "T2"}
RwLocks == {"R1"}
Locks == TicketLocks \cup RwLocks

NoLock == "none"
NoTicket == -1

VARIABLES
    \* TicketLock fields
    current_ticket, next_ticket, owner,
    \* RwTicketLock field
    access_count,
    \* the preemtable flag of every lock, fixed at construction
    preemtable,
    \* CoreLocals fields, and the core's RFLAGS.IF
    interrupt_depth, interrupts_disable_count, intr_flag,
    \* the nesting level a core executes at
    level,
    \* per context: position, lock of the call in progress, locals of the call
    pc, lk, ticket, cur_count, old_disable_count, cs_flag,
    \* live guards: the ticket of each exclusive TicketLock guard, the
    \* RwTicketLocks held for writing, the number of read guards per lock
    guard_ticket, wguard, rguard,
    \* history: the cores in the order of their fetch_add on next_ticket, and
    \* in the order of their acquisitions
    draw_seq, grant_seq,
    \* history: what the acquisition assertion saw, the flag each exclusive
    \* critical section was entered with, the net
    \* change of the disable count made by read-guard releases, and the value
    \* the disable count started with
    irq_at_call, enter_flag, read_net, base_count,
    \* the boot statics: the id counter, the ready count, the indices of
    \* CORE_LOCALS_VADDRS that are not null, and the shared boot record
    CORE_ID_COUNTER, CORE_READY_COUNT, CORE_LOCALS_VADDRS, BOOT_CORE_LOCALS,
    \* per core: position in the boot sequence, the CoreId core_boot returned,
    \* the argument of the init call in progress, the number of init calls
    \* made, what GS base points to, the critical sections open in the boot
    \* section, the heap record init leaves behind for the core
    bpc, boot_id, init_arg, init_calls, gs_base, boot_held, core_local,
    \* history: the CoreIds in the order they passed the handshake, and in the
    \* order of their advance of the handshake counter
    pass_seq, adv_seq,
    \* the UnwrapLockCell: whether its MaybeUninit payload has been written,
    \* per context the kind of its call or guard and what the guard's last
    \* dereference yielded
    payload, ukind, seen,
    \* CoreLocals::exception_depth, and per core the stack of its exception
    \* handlers: the RFLAGS.IF pushed on entry, the handler's position, and
    \* (history) exception_depth at entry
    exception_depth, exc_stack,
    \* the keyboard task: SCANCODE_QUEUE (initialized or not, its content),
    \* WAKER (whether it holds a waker), whether the registered waker has been
    \* woken since the task was last polled, the positions of poll_next and of
    \* add_scancode, the scancode add_scancode was called with, and (history)
    \* the scancodes pushed, returned and dropped so far
    kb_init, kb_queue, kb_waker, kb_woken, ppc, kpc, kb_code,
    kb_pushed, kb_got, kb_dropped,
    \* the BumpAllocator (start, end, ptr, allocations), whether init has run,
    \* and (history) the allocations handed out and not yet deallocated, in
    \* the order of their alloc calls, and the last call with its result
    bump, heap_ready, heap_live, heap_last

lockVars == <<current_ticket, next_ticket, owner, access_count, preemtable>>
coreVars == <<interrupt_depth, interrupts_disable_count, intr_flag, level>>
callVars == <<pc, lk, ticket, cur_count, old_disable_count, cs_flag>>
guardVars == <<guard_ticket, wguard, rguard>>
histVars == <<draw_seq, grant_seq, irq_at_call, enter_flag, read_net, base_count>>
kernelVars == <<lockVars, coreVars, callVars, guardVars, histVars>>
bootVars == <<CORE_ID_COUNTER, CORE_READY_COUNT, CORE_LOCALS_VADDRS, BOOT_CORE_LOCALS,
              bpc, boot_id, init_arg, init_calls, gs_base, boot_held, core_local,
              pass_seq, adv_seq>>
unwrapVars == <<payload, ukind, seen>>
kbVars == <<kb_init, kb_queue, kb_waker, kb_woken, ppc, kpc, kb_code,
            kb_pushed, kb_got, kb_dropped>>
heapVars == <<bump, heap_ready, heap_live, heap_last>>
otherVars == <<exception_depth, exc_stack, kbVars, heapVars>>
vars == <<kernelVars, bootVars, unwrapVars, otherVars>>

\* ----------------------------------------------------------------- helpers
CoreOf(t) == t[1]
LevelOf(t) == t[2]

\* The context that currently executes on its core.
Running(t) == level[CoreOf(t)] = LevelOf(t)

\* CoreInterruptState::core_id, as the u16 the lock stores.
core_id(t) == CoreOf(t)

\* CoreLocals::in_interrupt
in_interrupt(c) == interrupt_depth[c] > 0

\* Mutant of LockAssertion: the assertion is left out.
LockAssertionSkipped(t, l) == t \in Threads /\ l \in Locks

\* Mutant of LockAssertion: no lock at all may be taken in an interrupt.
LockAssertionStrict(t, l) == ~in_interrupt(CoreOf(t))

\* Mutant of LockAssertion: the flag is tested with the wrong polarity.
LockAssertionInverted(t, l) == preemtable[l] \/ (~in_interrupt(CoreOf(t)))

\* The assertion that opens lock(): !self.preemtable || !I::in_interrupt()
LockAssertion(t, l) == (~preemtable[l]) \/ (~in_interrupt(CoreOf(t)))

\* A live exclusive guard of TicketLock l: the caller is past the spin loop
\* and has not yet released (incremented current_ticket).
Holds(t, l) == guard_ticket[t][l] # NoTicket

\* -------------------------------------------------------------------- Init
\* TicketLock::new / new_non_preemtable, RwTicketLock::new /
\* new_non_preemtable, and a core that is either still in its boot section
\* (disable count 1, interrupts off) or running (count 0, interrupts on).
InitLocks ==
    /\ current_ticket = [l \in TicketLocks |-> 0]
    /\ next_ticket = [l \in TicketLocks |-> 0]
    /\ owner = [l \in TicketLocks |-> NoOwner]
    /\ access_count = [r \in RwLocks |-> 0]

\* SCANCODE_QUEUE is OnceCell::uninit(), WAKER is AtomicWaker::new(), the
\* ScancodeStream has not been made and no keyboard interrupt is being handled.
InitKb ==
    /\ kb_init = FALSE
    /\ kb_queue = << >>
    /\ kb_waker = FALSE
    /\ kb_woken = FALSE
    /\ ppc = "new"
    /\ kpc = "idle"
    /\ kb_code = 0
    /\ kb_pushed = << >>
    /\ kb_got = << >>
    /\ kb_dropped = << >>

\* ptr::null_mut()
Null == 0

\* BumpAllocator::new(): three null pointers and no allocation.
InitHeap ==
    /\ bump = [start |-> Null, end |-> Null, ptr |-> Null, allocations |-> 0]
    /\ heap_ready = FALSE
    /\ heap_live = << >>
    /\ heap_last = [op |-> "none", size |-> 0, align |-> 1, ret |-> Null,
                    flip |-> FALSE]

\* No exception is being handled: AutoRefCounter::new(0).
InitOther ==
    /\ exception_depth = [c \in Cores |-> 0]
    /\ exc_stack = [c \in Cores |-> << >>]
    /\ InitKb
    /\ InitHeap

InitCalls ==
    /\ InitOther
    /\ level = [c \in Cores |-> 0]
    /\ interrupt_depth = [c \in Cores |-> 0]
    /\ pc = [t \in Threads |-> IF LevelOf(t) = 0 THEN "idle" ELSE "off"]
    /\ lk = [t \in Threads |-> NoLock]
    /\ ticket = [t \in Threads |-> NoTicket]
    /\ cur_count = [t \in Threads |-> 0]
    /\ old_disable_count = [t \in Threads |-> 0]
    /\ cs_flag = [t \in Threads |-> FALSE]
    /\ guard_ticket = [t \in Threads |-> [l \in TicketLocks |-> NoTicket]]
    /\ wguard = [t \in Threads |-> {}]
    /\ rguard = [t \in Threads |-> [r \in RwLocks |-> 0]]
    /\ draw_seq = [l \in TicketLocks |-> << >>]
    /\ grant_seq = [l \in TicketLocks |-> << >>]
    /\ irq_at_call = [t \in Threads |-> FALSE]
    /\ enter_flag = [t \in Threads |-> [l \in Locks |-> "none"]]
    /\ read_net = [c \in Cores |-> 0]

\* No CoreId: core_boot has not returned yet.
NoCoreId == -1

\* No heap record yet: CORE_LOCALS_VADDRS[id] is VirtAddr::zero().
NoLocals ==
    [boot_lock |-> 0, core_id |-> NoCoreId, interrupt_depth |-> 0,
     exception_depth |-> 0, interrupts_disable_count |-> 0]

\* The statics of core_locals.rs before any core has booted; BOOT_CORE_LOCALS
\* is CoreLocals::new().
InitBoot ==
    /\ CORE_ID_COUNTER = 0
    /\ CORE_READY_COUNT = 0
    /\ CORE_LOCALS_VADDRS = {}
    /\ BOOT_CORE_LOCALS = [boot_lock |-> 0, core_id |-> 0, interrupt_depth |-> 0,
                           exception_depth |-> 0, interrupts_disable_count |-> 1]
    /\ bpc = [c \in Cores |-> "start"]
    /\ boot_id = [c \in Cores |-> NoCoreId]
    /\ init_arg = [c \in Cores |-> NoCoreId]
    /\ init_calls = [c \in Cores |-> 0]
    /\ gs_base = [c \in Cores |-> "unset"]
    /\ core_local = [c \in Cores |-> NoLocals]
    /\ boot_held = [c \in Cores |-> 0]
    /\ pass_seq = << >>
    /\ adv_seq = << >>

\* UnwrapLockCell::new_uninit: MaybeUninit::uninit(), no guard anywhere.
InitUnwrap ==
    /\ payload = "uninit"
    /\ ukind = [t \in Threads |-> "none"]
    /\ seen = [t \in Threads |-> "nothing"]

\* ------------------------------------------- CoreLocals: critical sections
\* What follows enter_critical_section in the call in progress.
AfterEnter(t) == IF lk[t] \in TicketLocks THEN "tl_draw" ELSE "rw_cas"

\* Mutant of LockFlag: every acquisition asks for interrupts to be disabled.
LockFlagAlways(l) == l \in Locks

\* Mutant of LockFlag: the acquisition never asks for interrupts to be disabled.
LockFlagNever(l) == l \notin Locks

\* The flag lock() passes to enter_critical_section: !self.preemtable.
LockFlag(l) == ~preemtable[l]

\* CoreInterruptState::enter_critical_section(!preemtable), first half:
\* CoreLocals::disable_interrupts' fetch_add on interrupts_disable_count.
EnterCriticalSection(t) ==
    /\ Running(t)
    /\ pc[t] = "enter"
    /\ LET c == CoreOf(t)
           flag == LockFlag(lk[t])
       IN /\ enter_flag' = [enter_flag EXCEPT ![t][lk[t]] = IF flag THEN "on" ELSE "off"]
          /\ IF flag
             THEN /\ interrupts_disable_count' =
                        [interrupts_disable_count EXCEPT ![c] = @ + 1]
                  /\ pc' = [pc EXCEPT ![t] = "cli"]
             ELSE /\ UNCHANGED interrupts_disable_count
                  /\ pc' = [pc EXCEPT ![t] = AfterEnter(t)]
    /\ UNCHANGED <<lockVars, interrupt_depth, intr_flag, level, lk, ticket,
                   cur_count, old_disable_count, cs_flag, guardVars, draw_seq,
                   grant_seq, irq_at_call, read_net, base_count, bootVars, unwrapVars, otherVars>>

\* CoreLocals::disable_interrupts, second half: cpu::disable_interrupts (cli).
DisableInterrupts(t) ==
    /\ Running(t)
    /\ pc[t] = "cli"
    /\ intr_flag' = [intr_flag EXCEPT ![CoreOf(t)] = FALSE]
    /\ pc' = [pc EXCEPT ![t] = AfterEnter(t)]
    /\ UNCHANGED <<lockVars, interrupt_depth, interrupts_disable_count, level,
                   lk, ticket, cur_count, old_disable_count, cs_flag,
                   guardVars, histVars, bootVars, unwrapVars, otherVars>>

\* The context is back between two calls; the locals of the call are dead.
Return(t) ==
    /\ pc' = [pc EXCEPT ![t] = "idle"]
    /\ lk' = [lk EXCEPT ![t] = NoLock]
    /\ ticket' = [ticket EXCEPT ![t] = NoTicket]
    /\ cur_count' = [cur_count EXCEPT ![t] = 0]
    /\ old_disable_count' = [old_disable_count EXCEPT ![t] = 0]
    /\ cs_flag' = [cs_flag EXCEPT ![t] = FALSE]
    /\ irq_at_call' = [irq_at_call EXCEPT ![t] = FALSE]

\* CoreInterruptState::exit_critical_section(cs_flag), first half:
\* CoreLocals::enable_interrupts' fetch_sub on interrupts_disable_count.
\* The AtomicU64 is kept as its residue: -1 stands for 2^64 - 1.
ExitCriticalSection(t) ==
    /\ Running(t)
    /\ pc[t] \in {"exit", "rd_exit"}
    /\ LET c == CoreOf(t)
           kind == IF pc[t] = "exit" THEN "excl" ELSE "read"
       IN /\ enter_flag' = IF kind = "excl"
                           THEN [enter_flag EXCEPT ![t][lk[t]] = "none"]
                           ELSE enter_flag
          /\ read_net' = IF kind = "read" /\ cs_flag[t]
                         THEN [read_net EXCEPT ![c] = @ - 1]
                         ELSE read_net
          /\ IF cs_flag[t]
             THEN /\ old_disable_count' =
                        [old_disable_count EXCEPT ![t] = interrupts_disable_count[c]]
                  /\ interrupts_disable_count' =
                        [interrupts_disable_count EXCEPT ![c] = @ - 1]
                  /\ pc' = [pc EXCEPT ![t] = "sti"]
                  /\ UNCHANGED <<lk, ticket, cur_count, cs_flag, irq_at_call>>
             ELSE /\ Return(t)
                  /\ UNCHANGED interrupts_disable_count
    /\ UNCHANGED <<lockVars, interrupt_depth, intr_flag, level, guardVars,
                   draw_seq, grant_seq, base_count, bootVars, unwrapVars, otherVars>>

\* Mutant of MayEnable: the test forgets the count the fetch_sub returned.
MayEnableAlways(t) == ~in_interrupt(CoreOf(t))

\* Mutant of MayEnable: the test forgets in_interrupt().
MayEnableAnywhere(t) == old_disable_count[t] = 1

\* The test that guards cpu::enable_interrupts in CoreLocals::enable_interrupts.
MayEnable(t) == old_disable_count[t] = 1 /\ ~in_interrupt(CoreOf(t))

\* CoreLocals::enable_interrupts, second half: the test and the sti.
EnableInterrupts(t) ==
    /\ Running(t)
    /\ pc[t] = "sti"
    /\ intr_flag' = IF MayEnable(t)
                    THEN [intr_flag EXCEPT ![CoreOf(t)] = TRUE]
                    ELSE intr_flag
    /\ Return(t)
    /\ UNCHANGED <<lockVars, interrupt_depth, interrupts_disable_count, level,
                   guardVars, draw_seq, grant_seq, enter_flag,
                   read_net, base_count, bootVars, unwrapVars, otherVars>>

\* ----------------------------------------------------- TicketLock (lock)
\* The tickets drawn so far, over all TicketLocks (the model stops calling
\* lock() after MaxTicket of them).
TicketsDrawn == next_ticket["T1"] + next_ticket["T2"]

\* The start of TicketLock::lock / RwTicketLock::lock: the acquisition
\* assertion.  A failed assertion panics; the panicking context never runs
\* lock code again.
BeginLock(t, l) ==
    /\ lk' = [lk EXCEPT ![t] = l]
    /\ irq_at_call' = [irq_at_call EXCEPT ![t] = in_interrupt(CoreOf(t))]
    /\ pc' = [pc EXCEPT ![t] = IF LockAssertion(t, l) THEN "enter" ELSE "panic"]

\* TicketLock::lock is called.
CallLock(t, l) ==
    /\ Running(t)
    /\ pc[t] = "idle"
    /\ l \in TicketLocks
    /\ TicketsDrawn < MaxTicket
    /\ BeginLock(t, l)
    /\ UNCHANGED <<lockVars, coreVars, ticket, cur_count, old_disable_count,
                   cs_flag, guardVars, draw_seq, grant_seq, enter_flag, read_net, base_count, bootVars, unwrapVars, otherVars>>

\* Mutant of TryLockSeesFree: try_lock goes on to lock() whatever it loads.
TryLockSeesAnything(l) == owner[l] \in {NoOwner} \cup Cores

\* The test of TicketLock::try_lock: self.owner.load() == !0.
TryLockSeesFree(l) == owner[l] = NoOwner

\* TicketLock::try_lock: one load of owner, then lock(), or None is about to
\* be returned.
CallTryLock(t, l) ==
    /\ Running(t)
    /\ pc[t] = "idle"
    /\ l \in TicketLocks
    /\ TicketsDrawn < MaxTicket
    /\ IF TryLockSeesFree(l)
       THEN BeginLock(t, l)
       ELSE /\ lk' = [lk EXCEPT ![t] = l]
            /\ pc' = [pc EXCEPT ![t] = "tl_none"]
            /\ UNCHANGED irq_at_call
    /\ UNCHANGED <<lockVars, coreVars, ticket, cur_count, old_disable_count,
                   cs_flag, guardVars, draw_seq, grant_seq, enter_flag, read_net, base_count, bootVars, unwrapVars, otherVars>>

\* TicketLock::try_lock returns None.
TryLockNone(t) ==
    /\ Running(t)
    /\ pc[t] = "tl_none"
    /\ Return(t)
    /\ UNCHANGED <<lockVars, coreVars, guardVars, draw_seq, grant_seq,
                   enter_flag, read_net, base_count, bootVars, unwrapVars, otherVars>>

\* Mutant of DrawTicket: next_ticket is loaded, not fetched-and-incremented.
DrawTicketLoadOnly(t) ==
    /\ Running(t)
    /\ pc[t] = "tl_draw"
    /\ ticket' = [ticket EXCEPT ![t] = next_ticket[lk[t]]]
    /\ draw_seq' = [draw_seq EXCEPT ![lk[t]] = Append(@, core_id(t))]
    /\ pc' = [pc EXCEPT ![t] = "tl_spin"]
    /\ UNCHANGED <<lockVars, coreVars, lk, cur_count, old_disable_count,
                   cs_flag, guardVars, grant_seq, irq_at_call, enter_flag, read_net, base_count, bootVars, unwrapVars, otherVars>>

\* let ticket = self.next_ticket.fetch_add(1)
DrawTicket(t) ==
    /\ Running(t)
    /\ pc[t] = "tl_draw"
    /\ LET l == lk[t]
       IN /\ ticket' = [ticket EXCEPT ![t] = next_ticket[l]]
          /\ next_ticket' = [next_ticket EXCEPT ![l] = @ + 1]
          /\ draw_seq' = [draw_seq EXCEPT ![l] = Append(@, core_id(t))]
    /\ pc' = [pc EXCEPT ![t] = "tl_spin"]
    /\ UNCHANGED <<current_ticket, owner, access_count, preemtable, coreVars,
                   lk, cur_count, old_disable_count, cs_flag, guardVars,
                   grant_seq, irq_at_call, enter_flag, read_net,
                   base_count, bootVars, unwrapVars, otherVars>>

\* Mutant of SpinDone: the loop is left while an earlier ticket is served.
SpinDoneEarly(t) == current_ticket[lk[t]] <= ticket[t]

\* The exit test of the spin loop: current_ticket.load() == ticket.
SpinDone(t) == current_ticket[lk[t]] = ticket[t]

\* while self.current_ticket.load() != ticket
SpinLoad(t) ==
    /\ Running(t)
    /\ pc[t] = "tl_spin"
    /\ IF SpinDone(t)
       THEN /\ pc' = [pc EXCEPT ![t] = "tl_own"]
            /\ guard_ticket' = [guard_ticket EXCEPT ![t][lk[t]] = ticket[t]]
            /\ grant_seq' = [grant_seq EXCEPT ![lk[t]] = Append(@, core_id(t))]
       ELSE /\ pc' = [pc EXCEPT ![t] = "tl_chk"]
            /\ UNCHANGED <<guard_ticket, grant_seq>>
    /\ UNCHANGED <<lockVars, coreVars, lk, ticket, cur_count,
                   old_disable_count, cs_flag, wguard, rguard, draw_seq,
                   irq_at_call, enter_flag, read_net, base_count, bootVars, unwrapVars, otherVars>>

\* Mutant of DeadlockDetected: any owner counts, not only the caller's core.
DeadlockDetectedAnyOwner(t) == owner[lk[t]] # NoOwner

\* Mutant of DeadlockDetected: the owner is never compared.
DeadlockIgnored(t) == owner[lk[t]] # owner[lk[t]]

\* The test in the spin loop: owner != !0 && owner == I::core_id().
DeadlockDetected(t) == owner[lk[t]] # NoOwner /\ owner[lk[t]] = core_id(t)

\* The body of the spin loop: the deadlock test on owner, then spin_loop().
SpinCheckOwner(t) ==
    /\ Running(t)
    /\ pc[t] = "tl_chk"
    /\ pc' = [pc EXCEPT ![t] = IF DeadlockDetected(t) THEN "deadlock" ELSE "tl_spin"]
    /\ UNCHANGED <<lockVars, coreVars, lk, ticket, cur_count,
                   old_disable_count, cs_flag, guardVars, histVars, bootVars, unwrapVars, otherVars>>

\* self.owner.store(I::core_id()), and lock() returns the guard.
StoreOwner(t) ==
    /\ Running(t)
    /\ pc[t] = "tl_own"
    /\ owner' = [owner EXCEPT ![lk[t]] = core_id(t)]
    /\ Return(t)
    /\ UNCHANGED <<current_ticket, next_ticket, access_count, preemtable,
                   coreVars, guardVars, draw_seq, grant_seq, enter_flag, read_net, base_count, bootVars, unwrapVars, otherVars>>

\* --------------------------------------------------- TicketLock (unlock)
\* Mutant of DropGuard: the release leaves owner as it is.
DropGuardKeepOwner(t, l) ==
    /\ Running(t)
    /\ pc[t] = "idle"
    /\ l \in TicketLocks
    /\ Holds(t, l)
    /\ lk' = [lk EXCEPT ![t] = l]
    /\ pc' = [pc EXCEPT ![t] = "tl_rel"]
    /\ UNCHANGED <<lockVars, coreVars, ticket, cur_count, old_disable_count,
                   cs_flag, guardVars, histVars, bootVars, unwrapVars, otherVars>>

\* The guard is dropped: unlock -> force_unlock, self.owner.store(!0).
DropGuard(t, l) ==
    /\ Running(t)
    /\ pc[t] = "idle"
    /\ l \in TicketLocks
    /\ Holds(t, l)
    /\ owner' = [owner EXCEPT ![l] = NoOwner]
    /\ lk' = [lk EXCEPT ![t] = l]
    /\ pc' = [pc EXCEPT ![t] = "tl_rel"]
    /\ UNCHANGED <<current_ticket, next_ticket, access_count, preemtable,
                   coreVars, ticket, cur_count, old_disable_count, cs_flag,
                   guardVars, histVars, bootVars, unwrapVars, otherVars>>

\* Mutant of UnlockFlag: the flag with the wrong polarity.
UnlockFlagInverted(l) == preemtable[l]

\* The flag force_unlock passes to exit_critical_section.
UnlockFlag(l) == ~preemtable[l]

\* Mutant of NextServed: the release skips a ticket.
NextServedSkip(l) == current_ticket[l] + 2

\* Mutant of NextServed: the release forgets to advance current_ticket.
NextServedStuck(l) == current_ticket[l]

\* The value self.current_ticket.fetch_add(1) leaves in current_ticket.
NextServed(l) == current_ticket[l] + 1

\* self.current_ticket.fetch_add(1); exit_critical_section comes next.
ReleaseTicket(t) ==
    /\ Running(t)
    /\ pc[t] = "tl_rel"
    /\ current_ticket' = [current_ticket EXCEPT ![lk[t]] = NextServed(lk[t])]
    /\ guard_ticket' = [guard_ticket EXCEPT ![t][lk[t]] = NoTicket]
    /\ cs_flag' = [cs_flag EXCEPT ![t] = UnlockFlag(lk[t])]
    /\ pc' = [pc EXCEPT ![t] = "exit"]
    /\ UNCHANGED <<next_ticket, owner, access_count, preemtable, coreVars,
                   lk, ticket, cur_count, old_disable_count, wguard, rguard,
                   histVars, bootVars, unwrapVars, otherVars>>

\* ------------------------------------------------- specification: SpecTL
\* NCores cores contend for one non-preemptable TicketLock (as PICS is).
TLLock == "T1"

InitTL ==
    /\ InitLocks
    /\ InitCalls
    /\ InitBoot
    /\ InitUnwrap
    /\ preemtable = [l \in Locks |-> l # "T1"]
    /\ base_count = [c \in Cores |-> 0]
    /\ interrupts_disable_count = [c \in Cores |-> 0]
    /\ intr_flag = [c \in Cores |-> TRUE]

CriticalSectionStep(t) ==
    \/ EnterCriticalSection(t)
    \/ DisableInterrupts(t)
    \/ ExitCriticalSection(t)
    \/ EnableInterrupts(t)

TicketLockStep(t) ==
    \/ DrawTicket(t)
    \/ SpinLoad(t)
    \/ SpinCheckOwner(t)
    \/ StoreOwner(t)
    \/ ReleaseTicket(t)
    \/ TryLockNone(t)

NextTL ==
    \E c \in Cores :
        \/ CallLock(<<c, 0>>, TLLock)
        \/ CallTryLock(<<c, 0>>, TLLock)
        \/ DropGuard(<<c, 0>>, TLLock)
        \/ CriticalSectionStep(<<c, 0>>)
        \/ TicketLockStep(<<c, 0>>)

SpecTL == InitTL /\ [][NextTL]_vars

\* The same cores under fair scheduling: a core that can take a step of a
\* call in progress, or drop a guard it holds, eventually does.  No core
\* calls lock() on a lock it already holds.
NextTLFair ==
    \E c \in Cores :
        \/ (~Holds(<<c, 0>>, TLLock) /\ CallLock(<<c, 0>>, TLLock))
        \/ (~Holds(<<c, 0>>, TLLock) /\ CallTryLock(<<c, 0>>, TLLock))
        \/ DropGuard(<<c, 0>>, TLLock)
        \/ CriticalSectionStep(<<c, 0>>)
        \/ TicketLockStep(<<c, 0>>)

CoreProgress(c) ==
    \/ DropGuard(<<c, 0>>, TLLock)
    \/ CriticalSectionStep(<<c, 0>>)
    \/ TicketLockStep(<<c, 0>>)

FairTL ==
    /\ InitTL
    /\ [][NextTLFair]_vars
    /\ \A c \in Cores : WF_vars(CoreProgress(c))

\* ------------------------------------------------------------ TicketLock
\* The contexts waiting in the spin loop of lock() on l.
Spinning(t, l) == lk[t] = l /\ pc[t] \in {"tl_spin", "tl_chk"}

\* C1: at most one guard of a TicketLock is live at any instant: no two
\* callers are past the spin loop and before their release.
C1_MutualExclusion ==
    \A l \in TicketLocks : Cardinality({t \in Threads : Holds(t, l)}) <= 1

C1_Witness ==
    \E t1, t2 \in Threads :
        /\ CoreOf(t1) # CoreOf(t2)
        /\ Holds(t1, TLLock)
        /\ Spinning(t2, TLLock)

\* C2: guards are granted in the order of the fetch_add on next_ticket: the
\* k-th acquisition is by the caller that drew ticket k - 1, no ticket is
\* skipped and none is granted twice.
C2_FifoOrder ==
    \A l \in TicketLocks :
        /\ Len(grant_seq[l]) <= Len(draw_seq[l])
        /\ \A i \in 1 .. Len(grant_seq[l]) : grant_seq[l][i] = draw_seq[l][i]
        /\ \A t \in Threads :
              Holds(t, l) => /\ guard_ticket[t][l] = Len(grant_seq[l]) - 1
                             /\ grant_seq[l][Len(grant_seq[l])] = core_id(t)

C2_Witness ==
    /\ Len(grant_seq[TLLock]) >= 2
    /\ grant_seq[TLLock][1] # grant_seq[TLLock][2]
    /\ Len(draw_seq[TLLock]) > Len(grant_seq[TLLock])

\* C3: current_ticket <= next_ticket, and while a caller holds the guard
\* current_ticket is the ticket that caller drew.
C3_TicketCounters ==
    \A l \in TicketLocks :
        /\ current_ticket[l] <= next_ticket[l]
        /\ \A t \in Threads : Holds(t, l) => current_ticket[l] = guard_ticket[t][l]

C3_Witness ==
    \E t \in Threads :
        /\ pc[t] = "idle"
        /\ Holds(t, TLLock)
        /\ guard_ticket[t][TLLock] >= 1
        /\ next_ticket[TLLock] > current_ticket[TLLock] + 1

\* C4: under fair scheduling, with every holder dropping its guard, every
\* lock() call that entered its critical section returns a guard.
C4_NoStarvation ==
    \A t \in Threads :
        (lk[t] = TLLock /\ pc[t] \in {"enter", "cli", "tl_draw", "tl_spin", "tl_chk"})
            ~> (pc[t] = "idle" /\ Holds(t, TLLock))

C4_Witness ==
    \E t1, t2 \in Threads :
        /\ t1 # t2
        /\ Spinning(t1, TLLock)
        /\ ticket[t1] > current_ticket[TLLock]
        /\ pc[t2] = "tl_rel"
        /\ lk[t2] = TLLock

\* ---------------------------------------------------------- RwTicketLock
\* The live read guards of r, one element per guard.
ReadGuards(r) == {<<t, i>> \in Threads \X (1 .. MaxReadGuards + 1) : i <= rguard[t][r]}

\* The contexts that hold the write guard of r.
WriteGuards(r) == {t \in Threads : r \in wguard[t]}

\* RwTicketLock::read is called: enter_critical_section(false), which changes
\* nothing, then the first load of access_count.  The caller holds fewer than
\* n read guards.
ReadUpTo(t, r, n) ==
    /\ Running(t)
    /\ pc[t] = "idle"
    /\ r \in RwLocks
    /\ rguard[t][r] < n
    /\ interrupts_disable_count[CoreOf(t)] > -MaxUnderflow
    /\ lk' = [lk EXCEPT ![t] = r]
    /\ cur_count' = [cur_count EXCEPT ![t] = access_count[r]]
    /\ pc' = [pc EXCEPT ![t] = "rd_loop"]
    /\ UNCHANGED <<lockVars, coreVars, ticket, old_disable_count, cs_flag,
                   guardVars, histVars, bootVars, unwrapVars, otherVars>>

\* One round of the loop of read(): the inner spin while cur_count < 0, or
\* compare_exchange(cur_count, cur_count + 1).
ReadLoop(t) ==
    /\ Running(t)
    /\ pc[t] = "rd_loop"
    /\ LET r == lk[t]
       IN IF cur_count[t] >= 0 /\ access_count[r] = cur_count[t]
          THEN /\ access_count' = [access_count EXCEPT ![r] = cur_count[t] + 1]
               /\ rguard' = [rguard EXCEPT ![t][r] = @ + 1]
               /\ Return(t)
          ELSE /\ cur_count' = [cur_count EXCEPT ![t] = access_count[r]]
               /\ UNCHANGED <<access_count, rguard, pc, lk, ticket,
                              old_disable_count, cs_flag, irq_at_call>>
    /\ UNCHANGED <<current_ticket, next_ticket, owner, preemtable, coreVars,
                   guard_ticket, wguard, draw_seq, grant_seq, enter_flag, read_net, base_count, bootVars, unwrapVars, otherVars>>

\* read() by a context that holds fewer than MaxReadGuards read guards.
CallRead(t, r) == ReadUpTo(t, r, MaxReadGuards)

\* The flag force_release_read passes to exit_critical_section.
ReadReleaseFlag(r) == ~preemtable[r]

\* Mutant of ReadReleaseBalanced: a release from 0 passes the assertion.
ReadReleaseBalancedLoose(r) == access_count[r] >= 0

\* The assertion of force_release_read on what fetch_sub(1) returned:
\* previous_count >= 1.
ReadReleaseBalanced(r) == access_count[r] >= 1

\* A read guard is dropped: release_read -> force_release_read, the
\* fetch_sub and its assertion previous_count >= 1.
DropRead(t, r) ==
    /\ Running(t)
    /\ pc[t] = "idle"
    /\ r \in RwLocks
    /\ rguard[t][r] > 0
    /\ access_count' = [access_count EXCEPT ![r] = @ - 1]
    /\ rguard' = [rguard EXCEPT ![t][r] = @ - 1]
    /\ lk' = [lk EXCEPT ![t] = r]
    /\ cs_flag' = [cs_flag EXCEPT ![t] = ReadReleaseFlag(r)]
    /\ pc' = [pc EXCEPT ![t] = IF ReadReleaseBalanced(r) THEN "rd_exit" ELSE "unbalanced"]
    /\ UNCHANGED <<current_ticket, next_ticket, owner, preemtable, coreVars,
                   ticket, cur_count, old_disable_count, guard_ticket, wguard,
                   histVars, bootVars, unwrapVars, otherVars>>

\* RwTicketLock::lock (write) is called: the acquisition assertion.
CallWrite(t, r) ==
    /\ Running(t)
    /\ pc[t] = "idle"
    /\ r \in RwLocks
    /\ BeginLock(t, r)
    /\ UNCHANGED <<lockVars, coreVars, ticket, cur_count, old_disable_count,
                   cs_flag, guardVars, draw_seq, grant_seq, enter_flag, read_net, base_count, bootVars, unwrapVars, otherVars>>

\* The test of RwTicketLock::try_lock: self.access_count.load() == 0.
TryWriteSeesFree(r) == access_count[r] = 0

\* RwTicketLock::try_lock: one load of access_count, then lock(), or None is
\* about to be returned.
CallTryWrite(t, r) ==
    /\ Running(t)
    /\ pc[t] = "idle"
    /\ r \in RwLocks
    /\ IF TryWriteSeesFree(r)
       THEN BeginLock(t, r)
       ELSE /\ lk' = [lk EXCEPT ![t] = r]
            /\ pc' = [pc EXCEPT ![t] = "rw_none"]
            /\ UNCHANGED irq_at_call
    /\ UNCHANGED <<lockVars, coreVars, ticket, cur_count, old_disable_count,
                   cs_flag, guardVars, draw_seq, grant_seq, enter_flag, read_net, base_count, bootVars, unwrapVars, otherVars>>

\* RwTicketLock::try_lock returns None.
TryWriteNone(t) ==
    /\ Running(t)
    /\ pc[t] = "rw_none"
    /\ Return(t)
    /\ UNCHANGED <<lockVars, coreVars, guardVars, draw_seq, grant_seq,
                   enter_flag, read_net, base_count, bootVars, unwrapVars, otherVars>>

\* Mutant of WriterMayEnter: a writer enters unless a writer holds the lock.
WriterMayEnterUnheld(r) == access_count[r] # -1

\* Mutant of WriterMayEnter: a writer also enters beside readers.
WriterMayEnterLoose(r) == access_count[r] >= 0

\* The expected value of compare_exchange(0, -1) in RwTicketLock::lock.
WriterMayEnter(r) == access_count[r] = 0

\* One round of the loop of RwTicketLock::lock: compare_exchange(0, -1).
WriteCas(t) ==
    /\ Running(t)
    /\ pc[t] = "rw_cas"
    /\ LET r == lk[t]
       IN IF WriterMayEnter(r)
          THEN /\ access_count' = [access_count EXCEPT ![r] = -1]
               /\ wguard' = [wguard EXCEPT ![t] = @ \cup {r}]
               /\ Return(t)
          ELSE UNCHANGED <<access_count, wguard, pc, lk, ticket, cur_count,
                           old_disable_count, cs_flag, irq_at_call>>
    /\ UNCHANGED <<current_ticket, next_ticket, owner, preemtable, coreVars,
                   guard_ticket, rguard, draw_seq, grant_seq, enter_flag, read_net, base_count, bootVars, unwrapVars, otherVars>>

\* The write guard is dropped: unlock -> force_unlock, access_count.store(0);
\* exit_critical_section(!preemtable) comes next.
DropWrite(t, r) ==
    /\ Running(t)
    /\ pc[t] = "idle"
    /\ r \in wguard[t]
    /\ access_count' = [access_count EXCEPT ![r] = 0]
    /\ wguard' = [wguard EXCEPT ![t] = @ \ {r}]
    /\ lk' = [lk EXCEPT ![t] = r]
    /\ cs_flag' = [cs_flag EXCEPT ![t] = UnlockFlag(r)]
    /\ pc' = [pc EXCEPT ![t] = "exit"]
    /\ UNCHANGED <<current_ticket, next_ticket, owner, preemtable, coreVars,
                   ticket, cur_count, old_disable_count, guard_ticket, rguard,
                   histVars, bootVars, unwrapVars, otherVars>>

RwLockStep(t) ==
    \/ ReadLoop(t)
    \/ WriteCas(t)
    \/ TryWriteNone(t)

\* ------------------------------------------------- specification: SpecRW
\* NCores cores read and write one RwTicketLock, preemptable or not.
RWLock == "R1"

InitRW ==
    /\ InitLocks
    /\ InitCalls
    /\ InitBoot
    /\ InitUnwrap
    /\ \E b \in BOOLEAN :
          preemtable = [l \in Locks |-> IF l = RWLock THEN b ELSE l # "T1"]
    /\ base_count = [c \in Cores |-> 0]
    /\ interrupts_disable_count = [c \in Cores |-> 0]
    /\ intr_flag = [c \in Cores |-> TRUE]

NextRW ==
    \E c \in Cores :
        \/ CallRead(<<c, 0>>, RWLock)
        \/ DropRead(<<c, 0>>, RWLock)
        \/ CallWrite(<<c, 0>>, RWLock)
        \/ CallTryWrite(<<c, 0>>, RWLock)
        \/ DropWrite(<<c, 0>>, RWLock)
        \/ CriticalSectionStep(<<c, 0>>)
        \/ RwLockStep(<<c, 0>>)

SpecRW == InitRW /\ [][NextRW]_vars

\* C5: access_count is either the number of live read guards (>= 0) with no
\* write guard, or -1 with exactly one write guard and no read guard; hence it
\* is never below -1 and a writer acquires only from exactly 0.
C5_RwExclusive ==
    \A r \in RwLocks :
        \/ /\ access_count[r] >= 0
           /\ access_count[r] = Cardinality(ReadGuards(r))
           /\ WriteGuards(r) = {}
        \/ /\ access_count[r] = -1
           /\ Cardinality(WriteGuards(r)) = 1
           /\ ReadGuards(r) = {}

C5_Witness ==
    \E t1, t2 \in Threads :
        /\ t1 # t2
        /\ rguard[t1][RWLock] = 1
        /\ rguard[t2][RWLock] = 1
        /\ access_count[RWLock] = 2

\* ------------------------------------------------------------- interrupts
\* No guard of context t is live (the guards of a handler are temporaries or
\* locals declared after _guard, so they are dropped before it).
NoGuards(t) ==
    /\ \A l \in TicketLocks : ~Holds(t, l)
    /\ wguard[t] = {}
    /\ \A r \in RwLocks : rguard[t][r] = 0

\* The CPU takes a hardware interrupt through an interrupt gate: RFLAGS is
\* pushed, IF is cleared and the handler starts.
IrqFire(c) ==
    /\ intr_flag[c]
    /\ level[c] < MaxLevel
    /\ level' = [level EXCEPT ![c] = @ + 1]
    /\ intr_flag' = [intr_flag EXCEPT ![c] = FALSE]
    /\ pc' = [pc EXCEPT ![<<c, level[c] + 1>>] = "irq_inc"]
    /\ UNCHANGED <<lockVars, interrupt_depth, interrupts_disable_count, lk,
                   ticket, cur_count, old_disable_count, cs_flag, guardVars,
                   histVars, bootVars, unwrapVars, otherVars>>

\* let _guard = crate::locals!().inc_interrupt();
IncInterrupt(t) ==
    /\ Running(t)
    /\ pc[t] = "irq_inc"
    /\ interrupt_depth' = [interrupt_depth EXCEPT ![CoreOf(t)] = @ + 1]
    /\ pc' = [pc EXCEPT ![t] = "idle"]
    /\ UNCHANGED <<lockVars, interrupts_disable_count, intr_flag, level, lk,
                   ticket, cur_count, old_disable_count, cs_flag, guardVars,
                   histVars, bootVars, unwrapVars, otherVars>>

\* Mutant of AutoRefCounterDrop: the drop leaves the count as it is.
AutoRefCounterDropKept(n) == n

\* AutoRefCounterGuard::drop: the value fetch_sub(1) leaves in the counter.
AutoRefCounterDrop(n) == n - 1

\* The handler ends: _guard is dropped (AutoRefCounterGuard::drop).
DecInterrupt(t) ==
    /\ Running(t)
    /\ LevelOf(t) > 0
    /\ pc[t] = "idle"
    /\ NoGuards(t)
    /\ interrupt_depth' = [interrupt_depth EXCEPT ![CoreOf(t)] = AutoRefCounterDrop(@)]
    /\ pc' = [pc EXCEPT ![t] = "iret"]
    /\ UNCHANGED <<lockVars, interrupts_disable_count, intr_flag, level, lk,
                   ticket, cur_count, old_disable_count, cs_flag, guardVars,
                   histVars, bootVars, unwrapVars, otherVars>>

\* iret: the pushed RFLAGS (IF set, or the interrupt had not been taken) is
\* restored and the interrupted context resumes.
Iret(t) ==
    /\ Running(t)
    /\ pc[t] = "iret"
    /\ intr_flag' = [intr_flag EXCEPT ![CoreOf(t)] = TRUE]
    /\ level' = [level EXCEPT ![CoreOf(t)] = @ - 1]
    /\ pc' = [pc EXCEPT ![t] = "off"]
    /\ UNCHANGED <<lockVars, interrupt_depth, interrupts_disable_count, lk,
                   ticket, cur_count, old_disable_count, cs_flag, guardVars,
                   draw_seq, grant_seq, irq_at_call, enter_flag, read_net,
                   base_count, bootVars, unwrapVars, otherVars>>

InterruptStep(t) ==
    \/ IncInterrupt(t)
    \/ DecInterrupt(t)
    \/ Iret(t)

\* ------------------------------------------------ specification: SpecIrq
\* One core whose normal code and interrupt handlers use a non-preemptable
\* TicketLock, a second TicketLock of either kind and an RwTicketLock of
\* either kind.
\* The core is either in its boot section (CoreLocals::new: disable count 1,
\* interrupts off) or past interrupts::init (count 0, interrupts on).
IrqCore == 0
IrqTicketLocks == {"T1", "T2"}

InitIrq ==
    /\ InitLocks
    /\ InitCalls
    /\ InitBoot
    /\ InitUnwrap
    /\ \E b1, b2 \in BOOLEAN :
          preemtable = [l \in Locks |-> IF l = "T1" THEN FALSE
                                        ELSE IF l = "T2" THEN b1 ELSE b2]
    /\ \E n \in {0, 1} :
          /\ base_count = [c \in Cores |-> IF c = IrqCore THEN n ELSE 0]
          /\ interrupts_disable_count = base_count
          /\ intr_flag = [c \in Cores |-> base_count[c] = 0]

NextIrq ==
    \/ IrqFire(IrqCore)
    \/ \E k \in Levels :
          \/ \E l \in IrqTicketLocks :
                \/ CallLock(<<IrqCore, k>>, l)
                \/ CallTryLock(<<IrqCore, k>>, l)
                \/ DropGuard(<<IrqCore, k>>, l)
          \/ CallRead(<<IrqCore, k>>, RWLock)
          \/ DropRead(<<IrqCore, k>>, RWLock)
          \/ CallWrite(<<IrqCore, k>>, RWLock)
          \/ CallTryWrite(<<IrqCore, k>>, RWLock)
          \/ DropWrite(<<IrqCore, k>>, RWLock)
          \/ CriticalSectionStep(<<IrqCore, k>>)
          \/ TicketLockStep(<<IrqCore, k>>)
          \/ RwLockStep(<<IrqCore, k>>)
          \/ InterruptStep(<<IrqCore, k>>)

SpecIrq == InitIrq /\ [][NextIrq]_vars

\* ------------------------------------------------------ critical sections
\* The exclusive guards context t holds.
HeldExclusive(t) == {l \in TicketLocks : Holds(t, l)} \cup wguard[t]

\* Context t is inside an exclusive acquisition or release whose guard is not
\* (or no longer) live: enter_critical_section has done its fetch_add, the
\* matching exit_critical_section has not yet done its fetch_sub.
InCallSection(t) ==
    pc[t] \in {"cli", "tl_draw", "tl_spin", "tl_chk", "deadlock", "rw_cas", "exit"}

\* The critical sections of core c that were entered with the flag true and
\* not yet left.
Outstanding(c) ==
    Cardinality({<<t, l>> \in Threads \X Locks :
                    CoreOf(t) = c /\ l \in HeldExclusive(t) /\ ~preemtable[l]})
    + Cardinality({t \in Threads :
                    CoreOf(t) = c /\ InCallSection(t) /\ ~preemtable[lk[t]]})

\* C6: an exclusive guard's drop calls exit_critical_section once, with the
\* flag its acquisition passed to enter_critical_section, and every such pair
\* leaves interrupts_disable_count where it was: the count is its initial
\* value plus the exclusive non-preemptable sections still open (whatever the
\* order of their release), apart from what read-guard releases took off.
C6_BalancedExclusive ==
    /\ \A t \in Threads :
          pc[t] = "exit" =>
              /\ enter_flag[t][lk[t]] # "none"
              /\ cs_flag[t] <=> (enter_flag[t][lk[t]] = "on")
    /\ \A c \in Cores :
          interrupts_disable_count[c] = base_count[c] + Outstanding(c) + read_net[c]

C6_Witness ==
    \E t \in Threads :
        /\ pc[t] = "exit"
        /\ lk[t] = "T1"
        /\ cs_flag[t]
        /\ Holds(t, "T2")
        /\ ~preemtable["T2"]
        /\ guard_ticket[t]["T2"] = 0
        /\ current_ticket["T1"] = 2

\* C7: a read guard's acquisition and drop leave interrupts_disable_count
\* alone, and the drop passes exit_critical_section the flag (false) that
\* read() passed enter_critical_section.
C7_ReadKeepsInterruptState ==
    /\ \A t \in Threads : pc[t] = "rd_exit" => ~cs_flag[t]
    /\ \A c \in Cores : read_net[c] = 0

\* C8: outside iret, interrupts are switched on only by the sti of
\* enable_interrupts, at a step where the decrement took the count from 1 to 0
\* and interrupt_depth is 0; while a handler runs they stay off.
C8_EnableOnlyOutermost ==
    [][\A c \in Cores :
          /\ (~intr_flag[c] /\ intr_flag'[c] /\ level'[c] = level[c]) =>
                /\ interrupt_depth[c] = 0
                /\ interrupts_disable_count[c] = 0
                /\ \E t \in Threads :
                      /\ CoreOf(t) = c
                      /\ pc[t] = "sti"
                      /\ old_disable_count[t] = 1
          /\ level'[c] > 0 => ~intr_flag'[c]]_vars

C8_Witness ==
    \E t \in Threads :
        /\ LevelOf(t) > 0
        /\ Running(t)
        /\ pc[t] = "sti"
        /\ old_disable_count[t] = 1
        /\ in_interrupt(CoreOf(t))

\* C9: while normal code holds (or is acquiring, from the ticket draw on) a
\* guard of a non-preemptable TicketLock, the core's interrupts are off.
C9_InterruptsOffWhileHeld ==
    \A t \in Threads : \A l \in TicketLocks :
        (/\ LevelOf(t) = 0
         /\ ~preemtable[l]
         /\ \/ Holds(t, l)
            \/ lk[t] = l /\ pc[t] \in {"tl_draw", "tl_spin", "tl_chk"})
        => ~intr_flag[CoreOf(t)]

FreeOfOthers(t, l) ==
    \A u \in Threads \ {t} :
        /\ ~Holds(u, l)
        /\ ~(lk[u] = l /\ pc[u] \in {"tl_spin", "tl_chk", "tl_own", "tl_rel", "deadlock"})

GuardLive(u, l) == Holds(u, l) /\ ~(lk[u] = l /\ pc[u] \in {"tl_own", "tl_rel"})

\* Context t is in lock() on a TicketLock whose guard its own core holds.
Reentrant(t) ==
    /\ lk[t] \in TicketLocks
    /\ \E u \in Threads : CoreOf(u) = CoreOf(t) /\ GuardLive(u, lk[t])

\* C12: a lock() call on a TicketLock whose guard the calling core holds
\* never leaves the spin loop with the guard and never goes round the loop:
\* its first pass through the loop body ends in the deadlock panic.
C12_ReentrantDeadlock ==
    [][\A t \in Threads :
          (Reentrant(t) /\ pc[t] \in {"tl_spin", "tl_chk"} /\ pc'[t] # pc[t]) =>
              \/ pc[t] = "tl_spin" /\ pc'[t] = "tl_chk"
              \/ pc[t] = "tl_chk" /\ pc'[t] = "deadlock"]_vars

C12_Witness ==
    \E t \in Threads :
        /\ pc[t] = "deadlock"
        /\ lk[t] = TLLock
        /\ Holds(t, TLLock)
        /\ owner[TLLock] = core_id(t)

\* ------------------------------------------------ specification: SpecTry
\* Two cores (the bootstrap core and one application core) that take their
\* exclusive guards with try_lock() only, on one TicketLock and one
\* RwTicketLock; read guards make the RwTicketLock busy.
TryCores == {c \in Cores : c <= IrqCore + 1}

\* The TicketLock is non-preemptable (as PICS), the RwTicketLock preemptable.
InitTry ==
    /\ InitLocks
    /\ InitCalls
    /\ InitBoot
    /\ InitUnwrap
    /\ preemtable = [l \in Locks |-> l \notin {TLLock}]
    /\ base_count = [c \in Cores |-> 0]
    /\ interrupts_disable_count = [c \in Cores |-> 0]
    /\ intr_flag = [c \in Cores |-> TRUE]

NextTry ==
    \E c \in TryCores :
        \/ CallTryLock(<<c, 0>>, TLLock)
        \/ DropGuard(<<c, 0>>, TLLock)
        \/ CallTryWrite(<<c, 0>>, RWLock)
        \/ DropWrite(<<c, 0>>, RWLock)
        \/ CallRead(<<c, 0>>, RWLock)
        \/ DropRead(<<c, 0>>, RWLock)
        \/ CriticalSectionStep(<<c, 0>>)
        \/ TicketLockStep(<<c, 0>>)
        \/ RwLockStep(<<c, 0>>)

SpecTry == InitTry /\ [][NextTry]_vars

\* C13: a try_lock() call never waits: when it reaches the spin loop of
\* lock() its ticket is being served, it is never in the loop body, and when
\* it reaches compare_exchange(0, -1) the counter is 0.
C13_TryLockNeverWaits ==
    \A t \in Threads :
        /\ pc[t] = "tl_spin" => SpinDone(t)
        /\ pc[t] # "tl_chk"
        /\ pc[t] = "rw_cas" => WriterMayEnter(lk[t])

\* What a try_lock() that returns None must leave alone.
TryFrame == <<lockVars, coreVars, guardVars, draw_seq, grant_seq, enter_flag, read_net>>

\* C14: try_lock() goes on to lock() only when it loaded owner = !0
\* (TicketLock) or access_count = 0 (RwTicketLock) and returns None
\* otherwise; the None path changes no lock field, draws no ticket, enters no
\* critical section and leaves the core's interrupt state alone.
C14_TryLockNone ==
    [][\A t \in Threads :
          /\ (pc[t] = "idle" /\ pc'[t] \in {"enter", "panic"}) =>
                IF lk'[t] \in TicketLocks
                THEN owner[lk'[t]] = NoOwner
                ELSE access_count[lk'[t]] = 0
          /\ (pc[t] = "idle" /\ pc'[t] = "tl_none") =>
                (owner[lk'[t]] # NoOwner /\ UNCHANGED TryFrame)
          /\ (pc[t] = "idle" /\ pc'[t] = "rw_none") =>
                (access_count[lk'[t]] # 0 /\ UNCHANGED TryFrame)
          /\ (pc[t] \in {"tl_none", "rw_none"} /\ pc'[t] # pc[t]) =>
                (pc'[t] = "idle" /\ UNCHANGED TryFrame)]_vars

C14_Witness ==
    \E t, u \in Threads :
        /\ pc[t] = "tl_none"
        /\ pc[u] = "rw_none"
        /\ next_ticket[TLLock] = current_ticket[TLLock] + 1
        /\ access_count[RWLock] = 1

\* ------------------------------------------------------ boot: core_boot
\* Mutant of NextCoreId: the counter is not advanced.
NextCoreIdStuck(n) == n

\* The value CORE_ID_COUNTER.fetch_add(1) leaves in the AtomicU8.
NextCoreId(n) == (n + 1) % U8Range

\* let core_id = CORE_ID_COUNTER.fetch_add(1), and cpu::disable_interrupts()
\* (a cli, local to the core).
FetchCoreId(c) ==
    /\ bpc[c] = "start"
    /\ boot_id' = [boot_id EXCEPT ![c] = CORE_ID_COUNTER]
    /\ CORE_ID_COUNTER' = NextCoreId(CORE_ID_COUNTER)
    /\ intr_flag' = [intr_flag EXCEPT ![c] = FALSE]
    /\ bpc' = [bpc EXCEPT ![c] = "spin"]
    /\ UNCHANGED <<lockVars, interrupt_depth, interrupts_disable_count, level, callVars,
                   guardVars, histVars, unwrapVars,
                   CORE_READY_COUNT, CORE_LOCALS_VADDRS, BOOT_CORE_LOCALS,
                   init_arg, init_calls, gs_base, core_local, boot_held, pass_seq, adv_seq, otherVars>>

\* Mutant of HandshakePassed: a core also passes before its turn.
HandshakePassedEarly(c) == BOOT_CORE_LOCALS.boot_lock <= boot_id[c]

\* Mutant of HandshakePassed: the test is inverted.
HandshakePassedOther(c) == BOOT_CORE_LOCALS.boot_lock # boot_id[c]

\* The exit test of the handshake spin: boot_lock.load() == core_id.0
HandshakePassed(c) == BOOT_CORE_LOCALS.boot_lock = boot_id[c]

\* while boot_core_locals.boot_lock.load() != core_id.0 { spin_loop() }
BootSpin(c) ==
    /\ bpc[c] = "spin"
    /\ IF HandshakePassed(c)
       THEN /\ bpc' = [bpc EXCEPT ![c] = "setup"]
            /\ pass_seq' = Append(pass_seq, boot_id[c])
       ELSE UNCHANGED <<bpc, pass_seq>>
    /\ UNCHANGED <<kernelVars, unwrapVars, CORE_ID_COUNTER, CORE_READY_COUNT, CORE_LOCALS_VADDRS,
                   BOOT_CORE_LOCALS, boot_id, init_arg, init_calls, gs_base, core_local,
                   boot_held, adv_seq, otherVars>>

\* cpu::set_gs_base(boot_core_locals), boot_core_locals.core_id = core_id.
BootSetup(c) ==
    /\ bpc[c] = "setup"
    /\ gs_base' = [gs_base EXCEPT ![c] = "boot"]
    /\ BOOT_CORE_LOCALS' = [BOOT_CORE_LOCALS EXCEPT !.core_id = boot_id[c]]
    /\ bpc' = [bpc EXCEPT ![c] = "assert"]
    /\ UNCHANGED <<kernelVars, unwrapVars, CORE_ID_COUNTER, CORE_READY_COUNT, CORE_LOCALS_VADDRS,
                   boot_id, init_arg, init_calls, boot_held, core_local, pass_seq, adv_seq, otherVars>>

\* The three assert_eq! of core_boot on the boot record.
BootAssertions(rec) ==
    /\ rec.interrupt_depth = 0
    /\ rec.exception_depth = 0
    /\ rec.interrupts_disable_count = 1

\* The assertions are evaluated; core_boot returns or panics.
BootAssert(c) ==
    /\ bpc[c] = "assert"
    /\ bpc' = [bpc EXCEPT ![c] = IF BootAssertions(BOOT_CORE_LOCALS)
                                 THEN "section" ELSE "assert_fail"]
    /\ UNCHANGED <<kernelVars, unwrapVars, CORE_ID_COUNTER, CORE_READY_COUNT, CORE_LOCALS_VADDRS,
                   BOOT_CORE_LOCALS, boot_id, init_arg, init_calls, gs_base, core_local,
                   boot_held, pass_seq, adv_seq, otherVars>>

\* ------------------------------------------------- boot: the boot section
\* The boot section takes a lock whose critical section disables interrupts:
\* locals!() is the boot record, disable_interrupts' fetch_add and cli.
BootEnterCritical(c) ==
    /\ bpc[c] = "section"
    /\ boot_held[c] < MaxBootLocks
    /\ BOOT_CORE_LOCALS' = [BOOT_CORE_LOCALS EXCEPT !.interrupts_disable_count = @ + 1]
    /\ intr_flag' = [intr_flag EXCEPT ![c] = FALSE]
    /\ boot_held' = [boot_held EXCEPT ![c] = @ + 1]
    /\ UNCHANGED <<lockVars, interrupt_depth, interrupts_disable_count, level, callVars,
                   guardVars, histVars, unwrapVars, CORE_ID_COUNTER, CORE_READY_COUNT, CORE_LOCALS_VADDRS,
                   bpc, boot_id, init_arg, init_calls, gs_base, core_local, pass_seq, adv_seq, otherVars>>

\* Mutant of CountAfterEnable: the release forgets the decrement.
CountAfterEnableKept(n) == n

\* The value enable_interrupts' fetch_sub(1) leaves in the disable count.
CountAfterEnable(n) == n - 1

\* The test of CoreLocals::enable_interrupts on record rec, whose count is
\* still the value fetch_sub returns: old_disable_count == 1 && !in_interrupt().
LocalsMayEnable(rec) == rec.interrupts_disable_count = 1 /\ rec.interrupt_depth = 0

\* The guard is dropped in the boot section: enable_interrupts' fetch_sub on
\* the boot record, and the sti if its test passes.
BootExitCritical(c) ==
    /\ bpc[c] = "section"
    /\ boot_held[c] > 0
    /\ BOOT_CORE_LOCALS' = [BOOT_CORE_LOCALS EXCEPT
                              !.interrupts_disable_count = CountAfterEnable(@)]
    /\ intr_flag' = IF LocalsMayEnable(BOOT_CORE_LOCALS)
                    THEN [intr_flag EXCEPT ![c] = TRUE] ELSE intr_flag
    /\ boot_held' = [boot_held EXCEPT ![c] = @ - 1]
    /\ UNCHANGED <<lockVars, interrupt_depth, interrupts_disable_count, level, callVars,
                   guardVars, histVars, unwrapVars, CORE_ID_COUNTER, CORE_READY_COUNT, CORE_LOCALS_VADDRS,
                   bpc, boot_id, init_arg, init_calls, gs_base, core_local, pass_seq, adv_seq, otherVars>>

\* An exception handler starts in the boot section: inc_exception().
BootException(c) ==
    /\ bpc[c] = "section"
    /\ BOOT_CORE_LOCALS' = [BOOT_CORE_LOCALS EXCEPT !.exception_depth = @ + 1]
    /\ bpc' = [bpc EXCEPT ![c] = "exc"]
    /\ UNCHANGED <<kernelVars, unwrapVars, CORE_ID_COUNTER, CORE_READY_COUNT, CORE_LOCALS_VADDRS,
                   boot_id, init_arg, init_calls, gs_base, core_local, boot_held, pass_seq, adv_seq, otherVars>>

\* The exception handler returns: its AutoRefCounterGuard is dropped.
BootExceptionReturn(c) ==
    /\ bpc[c] = "exc"
    /\ BOOT_CORE_LOCALS' = [BOOT_CORE_LOCALS EXCEPT !.exception_depth = @ - 1]
    /\ bpc' = [bpc EXCEPT ![c] = "section"]
    /\ UNCHANGED <<kernelVars, unwrapVars, CORE_ID_COUNTER, CORE_READY_COUNT, CORE_LOCALS_VADDRS,
                   boot_id, init_arg, init_calls, gs_base, core_local, boot_held, pass_seq, adv_seq, otherVars>>

\* ---------------------------------------------------------- boot: init
\* crate::init calls core_locals::init(core_id) with the id core_boot
\* returned, every guard of the boot section dropped.
CallInit(c) ==
    /\ bpc[c] = "section"
    /\ boot_held[c] = 0
    /\ init_arg' = [init_arg EXCEPT ![c] = boot_id[c]]
    /\ init_calls' = [init_calls EXCEPT ![c] = @ + 1]
    /\ bpc' = [bpc EXCEPT ![c] = "init_reg"]
    /\ UNCHANGED <<kernelVars, unwrapVars, CORE_ID_COUNTER, CORE_READY_COUNT, CORE_LOCALS_VADDRS,
                   BOOT_CORE_LOCALS, boot_id, gs_base, core_local, boot_held, pass_seq, adv_seq, otherVars>>

\* A booted core calls init again, for a CoreId that is registered.
CallInitAgain(c, id) ==
    /\ bpc[c] = "booted"
    /\ init_calls[c] < MaxInitCalls
    /\ id \in CORE_LOCALS_VADDRS
    /\ init_arg' = [init_arg EXCEPT ![c] = id]
    /\ init_calls' = [init_calls EXCEPT ![c] = @ + 1]
    /\ bpc' = [bpc EXCEPT ![c] = "init_reg"]
    /\ UNCHANGED <<kernelVars, unwrapVars, CORE_ID_COUNTER, CORE_READY_COUNT, CORE_LOCALS_VADDRS,
                   BOOT_CORE_LOCALS, boot_id, gs_base, core_local, boot_held, pass_seq, adv_seq, otherVars>>

\* Mutant of AlreadyRegistered: the entry is never found occupied.
NeverRegistered(id) == id \in {}

\* !CORE_LOCALS_VADDRS[core_id.0].is_null()
AlreadyRegistered(id) == id \in CORE_LOCALS_VADDRS

\* The assertion on CORE_LOCALS_VADDRS[core_id.0] and the store to it.
InitRegister(c) ==
    /\ bpc[c] = "init_reg"
    /\ IF AlreadyRegistered(init_arg[c])
       THEN /\ bpc' = [bpc EXCEPT ![c] = "double_reg"]
            /\ UNCHANGED CORE_LOCALS_VADDRS
       ELSE /\ CORE_LOCALS_VADDRS' = CORE_LOCALS_VADDRS \cup {init_arg[c]}
            /\ bpc' = [bpc EXCEPT ![c] = "init_gs"]
    /\ UNCHANGED <<kernelVars, unwrapVars, CORE_ID_COUNTER, CORE_READY_COUNT, BOOT_CORE_LOCALS,
                   boot_id, init_arg, init_calls, gs_base, core_local, boot_held, pass_seq, adv_seq, otherVars>>

\* Mutant of NewLocals: the permanent record starts with no disable count.
NewLocalsEnabled(id) ==
    [boot_lock |-> id, core_id |-> id, interrupt_depth |-> 0,
     exception_depth |-> 0, interrupts_disable_count |-> 0]

\* Mutant of NewLocals: every permanent record carries the bootstrap id.
NewLocalsBsp(id) ==
    [boot_lock |-> id, core_id |-> 0, interrupt_depth |-> 0,
     exception_depth |-> 0, interrupts_disable_count |-> 1]

\* Box::new(CoreLocals { boot_lock: core_id.0, core_id, .. }) of init.
NewLocals(id) ==
    [boot_lock |-> id, core_id |-> id, interrupt_depth |-> 0,
     exception_depth |-> 0, interrupts_disable_count |-> 1]

\* cpu::set_gs_base(core_local.virt_addr): GS base points to the record init
\* built (and forgets, so that it lives for ever).
InitSetGs(c) ==
    /\ bpc[c] = "init_gs"
    /\ gs_base' = [gs_base EXCEPT ![c] = "own"]
    /\ core_local' = [core_local EXCEPT ![c] = NewLocals(init_arg[c])]
    /\ bpc' = [bpc EXCEPT ![c] = "init_adv"]
    /\ UNCHANGED <<kernelVars, unwrapVars, CORE_ID_COUNTER, CORE_READY_COUNT, CORE_LOCALS_VADDRS,
                   BOOT_CORE_LOCALS, boot_id, init_arg, init_calls, boot_held,
                   pass_seq, adv_seq, otherVars>>

\* Mutant of NextBootLock: the advance skips a value.
NextBootLockSkip(n) == (n + 2) % U8Range

\* The value boot_lock.fetch_add(1) leaves in the AtomicU8.
NextBootLock(n) == (n + 1) % U8Range

\* BOOT_CORE_LOCALS.boot_lock.fetch_add(1)
InitAdvance(c) ==
    /\ bpc[c] = "init_adv"
    /\ BOOT_CORE_LOCALS' = [BOOT_CORE_LOCALS EXCEPT !.boot_lock = NextBootLock(@)]
    /\ adv_seq' = Append(adv_seq, init_arg[c])
    /\ bpc' = [bpc EXCEPT ![c] = "init_rdy"]
    /\ UNCHANGED <<kernelVars, unwrapVars, CORE_ID_COUNTER, CORE_READY_COUNT, CORE_LOCALS_VADDRS,
                   boot_id, init_arg, init_calls, gs_base, core_local, boot_held, pass_seq, otherVars>>

\* Mutant of NextReadyCount: the ready count is advanced by two.
NextReadyCountTwice(n) == (n + 2) % U8Range

\* The value CORE_READY_COUNT.fetch_add(1) leaves in the AtomicU8.
NextReadyCount(n) == (n + 1) % U8Range

\* CORE_READY_COUNT.fetch_add(1), and init returns.
InitReady(c) ==
    /\ bpc[c] = "init_rdy"
    /\ CORE_READY_COUNT' = NextReadyCount(CORE_READY_COUNT)
    /\ bpc' = [bpc EXCEPT ![c] = "booted"]
    /\ UNCHANGED <<kernelVars, unwrapVars, CORE_ID_COUNTER, CORE_LOCALS_VADDRS, BOOT_CORE_LOCALS,
                   boot_id, init_arg, init_calls, gs_base, core_local, boot_held, pass_seq, adv_seq, otherVars>>

\* ----------------------------------------------- specification: SpecBoot
\* NCores cores boot concurrently.
NextBoot ==
    \E c \in Cores :
        \/ FetchCoreId(c)
        \/ BootSpin(c)
        \/ BootSetup(c)
        \/ BootAssert(c)
        \/ BootEnterCritical(c)
        \/ BootExitCritical(c)
        \/ BootException(c)
        \/ BootExceptionReturn(c)
        \/ CallInit(c)
        \/ \E id \in Cores : CallInitAgain(c, id)
        \/ InitRegister(c)
        \/ InitSetGs(c)
        \/ InitAdvance(c)
        \/ InitReady(c)

SpecBoot == InitTL /\ [][NextBoot]_vars

\* C15: the CoreIds core_boot hands out are pairwise distinct and are exactly
\* 0 .. CORE_ID_COUNTER - 1; exactly one core has id 0 once any core has one.
C15_BootIds ==
    /\ \A c, d \in Cores :
          (c # d /\ boot_id[c] # NoCoreId) => boot_id[c] # boot_id[d]
    /\ {boot_id[c] : c \in Cores} \ {NoCoreId} = 0 .. (CORE_ID_COUNTER - 1)
    /\ CORE_ID_COUNTER > 0 => Cardinality({c \in Cores : boot_id[c] = 0}) = 1

C15_Witness ==
    /\ CORE_ID_COUNTER = NCores
    /\ boot_id[0] # 0
    /\ \A c \in Cores : bpc[c] = "spin"

\* Core c is inside the boot critical section: past the handshake spin of
\* core_boot and before the boot_lock increment of its (first) init.
InBootSection(c) ==
    \/ bpc[c] \in {"setup", "assert", "assert_fail", "section", "exc"}
    \/ bpc[c] \in {"init_reg", "double_reg", "init_gs", "init_adv"} /\ init_calls[c] = 1

\* C16: at most one core is inside the boot critical section.
C16_BootExclusion == Cardinality({c \in Cores : InBootSection(c)}) <= 1

C16_Witness ==
    \E c, d \in Cores :
        /\ bpc[c] = "init_adv"
        /\ init_calls[c] = 1
        /\ boot_id[c] = 0
        /\ bpc[d] = "spin"
        /\ boot_id[d] = 1

\* C17: the cores pass the handshake in CoreId order, and the core with id k
\* passes only after the cores 0 .. k-1 have advanced boot_lock in init, in
\* that order.
C17_BootOrder ==
    /\ \A i \in 1 .. Len(pass_seq) : pass_seq[i] = i - 1
    /\ \A k \in 1 .. Len(adv_seq) : adv_seq[k] = k - 1
    /\ Len(pass_seq) <= Len(adv_seq) + 1

C17_Witness ==
    /\ Len(pass_seq) = 2
    /\ Len(adv_seq) = 1
    /\ \E c \in Cores : boot_id[c] = 1 /\ bpc[c] = "setup"

C19_DoubleRegistration ==
    [][\A c \in Cores :
          /\ (bpc[c] = "init_reg" /\ init_arg[c] \in CORE_LOCALS_VADDRS /\ bpc'[c] # bpc[c]) =>
                /\ bpc'[c] = "double_reg"
                /\ UNCHANGED <<BOOT_CORE_LOCALS, CORE_READY_COUNT, CORE_LOCALS_VADDRS,
                               gs_base, adv_seq>>
          /\ bpc[c] = "double_reg" =>
                (bpc'[c] = "double_reg" /\ gs_base'[c] = gs_base[c])]_vars

C19_Witness ==
    \E c \in Cores :
        /\ bpc[c] = "double_reg"
        /\ init_calls[c] = 2
        /\ init_arg[c] \in CORE_LOCALS_VADDRS
        /\ CORE_READY_COUNT = NCores

\* --------------------------------------------------------- UnwrapLockCell
\* The UnwrapTicketLock of the model: an UnwrapLockCell over the TicketLock
\* T2 (UnwrapTicketLock::new_uninit or new_non_preemtable_uninit).
UCell == "T2"

\* Context t holds a guard of the UnwrapLockCell.
UnwrapGuardLive(t) == pc[t] = "idle" /\ Holds(t, UCell)

\* Mutant of UnwrapInner: lock_uninit takes a lock of its own.
UnwrapInnerSplit(kind) == IF kind = "lock_uninit" THEN "T1" ELSE UCell

\* The inner lock a call on the UnwrapLockCell acquires: self.lockcell, in
\* lock_uninit, lock and try_lock alike.
UnwrapInner(kind) == UCell

\* UnwrapLockCell::lock (kind "lock") or lock_uninit (kind "lock_uninit"):
\* let inner_guard = self.lockcell.lock(), whose guard is forgotten and
\* replaced by a guard of the wrapper.
UnwrapLock(t, kind) ==
    /\ Running(t)
    /\ pc[t] = "idle"
    /\ ukind[t] = "none"
    /\ TicketsDrawn < MaxTicket
    /\ BeginLock(t, UnwrapInner(kind))
    /\ ukind' = [ukind EXCEPT ![t] = kind]
    /\ UNCHANGED <<lockVars, coreVars, ticket, cur_count, old_disable_count,
                   cs_flag, guardVars, draw_seq, grant_seq, enter_flag, read_net,
                   base_count, bootVars, payload, seen, otherVars>>

\* UnwrapLockCell::try_lock: self.lockcell.try_lock(), Some or None.
UnwrapTryLock(t) ==
    /\ Running(t)
    /\ pc[t] = "idle"
    /\ ukind[t] = "none"
    /\ TicketsDrawn < MaxTicket
    /\ IF TryLockSeesFree(UnwrapInner("try_lock"))
       THEN /\ BeginLock(t, UnwrapInner("try_lock"))
            /\ ukind' = [ukind EXCEPT ![t] = "lock"]
       ELSE /\ lk' = [lk EXCEPT ![t] = UnwrapInner("try_lock")]
            /\ pc' = [pc EXCEPT ![t] = "tl_none"]
            /\ UNCHANGED <<irq_at_call, ukind>>
    /\ UNCHANGED <<lockVars, coreVars, ticket, cur_count, old_disable_count,
                   cs_flag, guardVars, draw_seq, grant_seq, enter_flag, read_net,
                   base_count, bootVars, payload, seen, otherVars>>

\* The holder of a lock_uninit guard initializes the payload:
\* guard.write(value) on the MaybeUninit.
UnwrapWrite(t) ==
    /\ Running(t)
    /\ UnwrapGuardLive(t)
    /\ ukind[t] = "lock_uninit"
    /\ payload' = "init"
    /\ UNCHANGED <<kernelVars, bootVars, ukind, seen, otherVars>>

\* The holder of a lock()/try_lock() guard dereferences it:
\* LockCellInternal::get -> self.lockcell.get().assume_init_ref().  On an
\* uninitialized payload this is undefined behaviour: the reference yields
\* arbitrary bytes, or the use of them traps.
UnwrapDeref(t) ==
    /\ Running(t)
    /\ UnwrapGuardLive(t)
    /\ ukind[t] = "lock"
    /\ \E res \in (IF payload = "init" THEN {"value"} ELSE {"garbage", "trap"}) :
          seen' = [seen EXCEPT ![t] = res]
    /\ UNCHANGED <<kernelVars, bootVars, payload, ukind, otherVars>>

\* The wrapper's guard is dropped: unlock -> self.lockcell.force_unlock(),
\* whose first step is owner.store(!0).
UnwrapUnlock(t) ==
    /\ Running(t)
    /\ UnwrapGuardLive(t)
    /\ owner' = [owner EXCEPT ![UCell] = NoOwner]
    /\ lk' = [lk EXCEPT ![t] = UCell]
    /\ pc' = [pc EXCEPT ![t] = "tl_rel"]
    /\ ukind' = [ukind EXCEPT ![t] = "none"]
    /\ seen' = [seen EXCEPT ![t] = "nothing"]
    /\ UNCHANGED <<current_ticket, next_ticket, access_count, preemtable,
                   coreVars, ticket, cur_count, old_disable_count, cs_flag,
                   guardVars, histVars, bootVars, payload, otherVars>>

\* --------------------------------------------- specification: SpecUnwrap
\* NCores cores use one UnwrapTicketLock that was created uninitialized,
\* preemptable or not.
InitUCell ==
    /\ InitLocks
    /\ InitCalls
    /\ InitBoot
    /\ InitUnwrap
    /\ \E b \in BOOLEAN :
          preemtable = [l \in Locks |-> IF l = UCell THEN b ELSE l # "T1"]
    /\ base_count = [c \in Cores |-> 0]
    /\ interrupts_disable_count = [c \in Cores |-> 0]
    /\ intr_flag = [c \in Cores |-> TRUE]

NextUnwrap ==
    \E c \in Cores :
        \/ \E kind \in {"lock", "lock_uninit"} : UnwrapLock(<<c, 0>>, kind)
        \/ UnwrapTryLock(<<c, 0>>)
        \/ UnwrapWrite(<<c, 0>>)
        \/ UnwrapDeref(<<c, 0>>)
        \/ UnwrapUnlock(<<c, 0>>)
        \/ CriticalSectionStep(<<c, 0>>)
        \/ TicketLockStep(<<c, 0>>)

SpecUnwrap == InitUCell /\ [][NextUnwrap]_vars

\* C20: no guard obtained from lock() or try_lock() is live while the payload
\* has never been initialized, and no dereference yields uninitialized bytes.
C20_UninitRejected ==
    \A t \in Threads :
        /\ (UnwrapGuardLive(t) /\ ukind[t] = "lock") => payload = "init"
        /\ seen[t] \notin {"garbage", "trap"}

\* The contexts that hold a guard of the UnwrapLockCell, of whatever kind:
\* their call has returned and the drop has not begun.
UnwrapGuards == {t \in Threads : pc[t] = "idle" /\ ukind[t] # "none"}

\* No context is inside a call on the UnwrapLockCell or holds its guard.
UnwrapQuiet == \A t \in Threads : pc[t] = "idle" /\ ukind[t] = "none" /\ ~Holds(t, UCell)

\* C21: lock(), try_lock() and lock_uninit() acquire the same inner lock:
\* every guard of the UnwrapLockCell holds the inner TicketLock, so at most
\* one guard of any kind is live; every acquisition is released exactly once
\* (current_ticket counts the acquisitions whose guard is gone, the disable
\* count is the open non-preemptable sections), and with no call in progress
\* and no guard the inner lock is unlocked.
C21_SingleInnerLock ==
    /\ \A t \in UnwrapGuards : Holds(t, UCell) /\ owner[UCell] = core_id(t)
    /\ Cardinality(UnwrapGuards) <= 1
    /\ Cardinality({t \in Threads : Holds(t, UCell)}) <= 1
    /\ current_ticket[UCell] + Cardinality({t \in Threads : Holds(t, UCell)})
          = Len(grant_seq[UCell])
    /\ \A c \in Cores : interrupts_disable_count[c] = Outstanding(c)
    /\ \A t \in Threads : pc[t] = "exit" => enter_flag[t][lk[t]] # "none"
    /\ UnwrapQuiet =>
          /\ owner[UCell] = NoOwner
          /\ current_ticket[UCell] = next_ticket[UCell]

C21_Witness ==
    \E t, u \in Threads :
        /\ UnwrapGuardLive(t)
        /\ ukind[t] = "lock"
        /\ payload = "init"
        /\ current_ticket[UCell] >= 1
        /\ ukind[u] = "lock_uninit"
        /\ pc[u] \in {"tl_spin", "tl_chk"}

\* ------------------------------------- UnwrapLockCell over an RwTicketLock
\* An UnwrapLockCell whose inner lock is the RwTicketLock R1
\* (UnwrapLockCell::new(RwTicketLock::new(..)), the payload initialized).
URwCell == "R1"

\* UnwrapLockCell::read: let inner_guard = self.lockcell.read(), whose guard is
\* forgotten and replaced by a ReadCellGuard of the wrapper.  The inner hold
\* stays counted in rguard.
UnwrapRead(t) ==
    /\ Running(t)
    /\ pc[t] = "idle"
    /\ ukind[t] = "none"
    /\ rguard[t][URwCell] < MaxReadGuards
    /\ lk' = [lk EXCEPT ![t] = URwCell]
    /\ cur_count' = [cur_count EXCEPT ![t] = access_count[URwCell]]
    /\ pc' = [pc EXCEPT ![t] = "rd_loop"]
    /\ ukind' = [ukind EXCEPT ![t] = "read"]
    /\ UNCHANGED <<lockVars, coreVars, ticket, old_disable_count, cs_flag,
                   guardVars, histVars, bootVars, payload, seen, otherVars>>

\* Context t holds a read guard of the wrapper.
UnwrapReadLive(t) == pc[t] = "idle" /\ ukind[t] = "read"

\* The wrapper's read guard is dropped: release_read asserts that the guard
\* belongs to this cell and calls self.force_release_read(), which the impl
\* for UnwrapLockCell does not define: the trait's default body {} runs and
\* the inner lock is not touched.
UnwrapReleaseRead(t) ==
    /\ Running(t)
    /\ UnwrapReadLive(t)
    /\ ukind' = [ukind EXCEPT ![t] = "none"]
    /\ UNCHANGED <<kernelVars, bootVars, payload, seen, otherVars>>

\* UnwrapLockCell::lock (write() is lock()) on the wrapper: the inner
\* RwTicketLock::lock.
UnwrapRwLock(t) ==
    /\ Running(t)
    /\ pc[t] = "idle"
    /\ ukind[t] = "none"
    /\ BeginLock(t, URwCell)
    /\ ukind' = [ukind EXCEPT ![t] = "lock"]
    /\ UNCHANGED <<lockVars, coreVars, ticket, cur_count, old_disable_count,
                   cs_flag, guardVars, draw_seq, grant_seq, enter_flag, read_net,
                   base_count, bootVars, payload, seen, otherVars>>

\* The wrapper's exclusive guard is dropped: unlock ->
\* self.lockcell.force_unlock(), access_count.store(0).
UnwrapRwUnlock(t) ==
    /\ Running(t)
    /\ pc[t] = "idle"
    /\ ukind[t] = "lock"
    /\ URwCell \in wguard[t]
    /\ access_count' = [access_count EXCEPT ![URwCell] = 0]
    /\ wguard' = [wguard EXCEPT ![t] = @ \ {URwCell}]
    /\ lk' = [lk EXCEPT ![t] = URwCell]
    /\ cs_flag' = [cs_flag EXCEPT ![t] = UnlockFlag(URwCell)]
    /\ pc' = [pc EXCEPT ![t] = "exit"]
    /\ ukind' = [ukind EXCEPT ![t] = "none"]
    /\ UNCHANGED <<current_ticket, next_ticket, owner, preemtable, coreVars,
                   ticket, cur_count, old_disable_count, guard_ticket, rguard,
                   histVars, bootVars, payload, seen, otherVars>>

\* ------------------------------------------- specification: SpecUnwrapRw
\* NCores cores read and write one UnwrapLockCell over an RwTicketLock,
\* preemptable or not, whose payload is initialized.
InitURw ==
    /\ InitLocks
    /\ InitCalls
    /\ InitBoot
    /\ payload = "init"
    /\ ukind = [t \in Threads |-> "none"]
    /\ seen = [t \in Threads |-> "nothing"]
    /\ \E b \in BOOLEAN :
          preemtable = [l \in Locks |-> IF l = URwCell THEN b ELSE l # "T1"]
    /\ base_count = [c \in Cores |-> 0]
    /\ interrupts_disable_count = [c \in Cores |-> 0]
    /\ intr_flag = [c \in Cores |-> TRUE]

NextURw ==
    \E c \in Cores :
        \/ UnwrapRead(<<c, 0>>)
        \/ UnwrapReleaseRead(<<c, 0>>)
        \/ UnwrapRwLock(<<c, 0>>)
        \/ UnwrapRwUnlock(<<c, 0>>)
        \/ ReadLoop(<<c, 0>>)
        \/ WriteCas(<<c, 0>>)
        \/ CriticalSectionStep(<<c, 0>>)

SpecUnwrapRw == InitURw /\ [][NextURw]_vars

\* C22: the drop of a wrapper read guard gives the inner read hold back:
\* access_count is the number of read() calls past their compare_exchange
\* whose guard is not yet dropped, so with every read guard dropped and no
\* writer about it is 0 and a write()/lock() can acquire.
C22_ReadReleased ==
    \A r \in {URwCell} :
        (\A t \in Threads : wguard[t] = {}) =>
            access_count[r] = Cardinality({t \in Threads : UnwrapReadLive(t)})

\* ------------------------------------------------ unbalanced read release
\* force_release_read is called with no read guard of the caller behind it
\* (the trait method is callable without a guard): the fetch_sub and its
\* assertion, as in the drop of a guard.
ForceReleaseRead(t, r) ==
    /\ Running(t)
    /\ pc[t] = "idle"
    /\ r \in RwLocks
    /\ rguard[t][r] = 0
    /\ r \notin wguard[t]
    /\ interrupts_disable_count[CoreOf(t)] > -MaxUnderflow
    /\ access_count' = [access_count EXCEPT ![r] = @ - 1]
    /\ lk' = [lk EXCEPT ![t] = r]
    /\ cs_flag' = [cs_flag EXCEPT ![t] = ReadReleaseFlag(r)]
    /\ pc' = [pc EXCEPT ![t] = IF ReadReleaseBalanced(r) THEN "rd_exit" ELSE "unbalanced"]
    /\ UNCHANGED <<current_ticket, next_ticket, owner, preemtable, coreVars,
                   ticket, cur_count, old_disable_count, guardVars,
                   histVars, bootVars, unwrapVars, otherVars>>

\* ------------------------------------------------ specification: SpecRel
\* Two cores that use the RwTicketLock as the cores of SpecRW do, and may
\* also release reads they do not hold.
NextRel ==
    \E c \in TryCores :
        \/ CallRead(<<c, 0>>, RWLock)
        \/ DropRead(<<c, 0>>, RWLock)
        \/ CallWrite(<<c, 0>>, RWLock)
        \/ CallTryWrite(<<c, 0>>, RWLock)
        \/ DropWrite(<<c, 0>>, RWLock)
        \/ CriticalSectionStep(<<c, 0>>)
        \/ RwLockStep(<<c, 0>>)
        \/ ForceReleaseRead(<<c, 0>>, RWLock)

SpecRel == InitRW /\ [][NextRel]_vars

\* C23: a read release (the drop of a read guard, or force_release_read)
\* takes exactly 1 off access_count, a read guard goes away only by such a
\* release, and the release is fatal exactly when access_count was <= 0
\* before it; the fatal error is final.
C23_ReadRelease ==
    [][\A t \in Threads : \A r \in RwLocks :
          /\ (pc[t] = "idle" /\ pc'[t] \in {"rd_exit", "unbalanced"} /\ lk'[t] = r) =>
                /\ access_count'[r] = access_count[r] - 1
                /\ pc'[t] = "unbalanced" <=> access_count[r] <= 0
          /\ rguard'[t][r] < rguard[t][r] =>
                /\ rguard'[t][r] = rguard[t][r] - 1
                /\ pc[t] = "idle"
                /\ pc'[t] \in {"rd_exit", "unbalanced"}
                /\ lk'[t] = r
          /\ pc[t] = "unbalanced" => pc'[t] = "unbalanced"]_vars

C23_Witness ==
    \E t, u \in Threads :
        /\ pc[t] = "unbalanced"
        /\ lk[t] = RWLock
        /\ pc[u] = "rd_exit"
        /\ access_count[RWLock] = -1

\* ------------------------------------------ specification: FairIrqRead
\* One core, no other core in sight: its normal code reads and writes an
\* RwTicketLock of either kind, its interrupt handlers read it.  Scheduling is
\* fair: a context that can take a step of a call in progress, drop a guard it
\* holds or end its handler eventually does.
IrqReadProgress(t) ==
    \/ DropRead(t, RWLock)
    \/ DropWrite(t, RWLock)
    \/ ReadLoop(t)
    \/ WriteCas(t)
    \/ CriticalSectionStep(t)
    \/ InterruptStep(t)

NextIrqRead ==
    \/ IrqFire(IrqCore)
    \/ CallWrite(<<IrqCore, 0>>, RWLock)
    \/ \E k \in Levels :
          \/ CallRead(<<IrqCore, k>>, RWLock)
          \/ IrqReadProgress(<<IrqCore, k>>)

FairIrqRead ==
    /\ InitIrq
    /\ [][NextIrqRead]_vars
    /\ \A k \in Levels : WF_vars(IrqReadProgress(<<IrqCore, k>>))

\* C24: a read() call made by an interrupt handler returns a read guard (no
\* other core holds a guard in this specification).
C24_HandlerReadReturns ==
    \A t \in Threads :
        (LevelOf(t) > 0 /\ pc[t] = "rd_loop")
            ~> (pc[t] = "idle" /\ rguard[t][RWLock] > 0)

\* ------------------------------------------- specification: FairStarve
\* A client of one preemptable RwTicketLock.  The reader core keeps its holds
\* overlapping: it takes its next read guard before it drops an older one,
\* never holding more than MaxOverlap.  The other core reads, and, when it
\* holds no read guard, calls lock(), write() or try_lock().  Scheduling is
\* fair, so every read guard is dropped.
MaxOverlap == 3
StarveReader == <<0, 0>>
StarveWriter == <<1, 0>>

InitStarve == InitRW /\ preemtable[RWLock]

ReaderStep ==
    \/ ReadUpTo(StarveReader, RWLock, MaxOverlap)
    \/ ReadLoop(StarveReader)
    \/ (rguard[StarveReader][RWLock] >= 2 /\ DropRead(StarveReader, RWLock))
    \/ ExitCriticalSection(StarveReader)

WriterStep ==
    \/ ReadLoop(StarveWriter)
    \/ DropRead(StarveWriter, RWLock)
    \/ WriteCas(StarveWriter)
    \/ TryWriteNone(StarveWriter)
    \/ DropWrite(StarveWriter, RWLock)
    \/ EnterCriticalSection(StarveWriter)
    \/ ExitCriticalSection(StarveWriter)

WriterCall ==
    \/ CallRead(StarveWriter, RWLock)
    \/ (rguard[StarveWriter][RWLock] = 0 /\ CallWrite(StarveWriter, RWLock))
    \/ (rguard[StarveWriter][RWLock] = 0 /\ CallTryWrite(StarveWriter, RWLock))

NextStarve ==
    \/ ReaderStep
    \/ WriterStep
    \/ WriterCall

FairStarve ==
    /\ InitStarve
    /\ [][NextStarve]_vars
    /\ WF_vars(ReaderStep)
    /\ WF_vars(WriterStep)

\* The reader core holds a read guard and a lock()/write() call of the other
\* core is waiting in its compare_exchange loop.
WriterWaits ==
    /\ pc[StarveWriter] = "rw_cas"
    /\ rguard[StarveReader][RWLock] >= 1

\* C25: a writer acquires only at a step that finds access_count exactly 0;
\* readers are admitted beside a waiting writer, so with overlapping read
\* holds the counter stays above 0 and a lock() call that waits then waits
\* forever, although the reader goes on dropping its guards.
C25_WriterStarvation ==
    /\ [][(wguard'[StarveWriter] # wguard[StarveWriter] /\ wguard[StarveWriter] = {})
              => access_count[RWLock] = 0]_vars
    /\ [][rguard[StarveReader][RWLock] >= 1 =>
              (rguard'[StarveReader][RWLock] >= 1 /\ access_count'[RWLock] >= 1)]_vars
    /\ [](WriterWaits => [](pc[StarveWriter] = "rw_cas"))
    /\ [](WriterWaits => <>(pc[StarveReader] = "rd_exit"))

C25_Witness ==
    /\ WriterWaits
    /\ pc[StarveReader] = "rd_exit"
    /\ rguard[StarveReader][RWLock] = 1
    /\ access_count[RWLock] = 1

\* ---------------------------------------------- TicketLock: release order
\* C26: the release resets owner before it increments current_ticket and
\* leaves the critical section after both; while a guard is live owner is the
\* holder's core id (is_unlocked() is false); and a reset of owner only ever
\* erases the value of the context that resets, never a new holder's.
C26_ReleaseOrder ==
    [][\A l \in TicketLocks :
          /\ current_ticket'[l] # current_ticket[l] =>
                (owner[l] = NoOwner /\ owner'[l] = NoOwner)
          /\ \A t \in Threads :
                /\ (lk[t] = l /\ pc[t] = "exit") =>
                      (~Holds(t, l) /\ owner[l] # core_id(t) /\ current_ticket[l] > 0)
                /\ GuardLive(t, l) => owner[l] = core_id(t)
                /\ GuardLive(t, l)' => owner'[l] = core_id(t)
          /\ (owner[l] # NoOwner /\ owner'[l] = NoOwner) =>
                \E t \in Threads :
                    /\ GuardLive(t, l)
                    /\ owner[l] = core_id(t)
                    /\ pc'[t] = "tl_rel"
                    /\ lk'[t] = l]_vars

C26_Witness ==
    \E t, u \in Threads :
        /\ CoreOf(t) # CoreOf(u)
        /\ lk[t] = TLLock
        /\ pc[t] \in {"exit", "sti"}
        /\ GuardLive(u, TLLock)
        /\ owner[TLLock] = core_id(u)

\* ------------------------------------------------ TicketLock: force_unlock
\* TicketLock l has no active guard: nobody holds it and nobody is inside a
\* call on it.
NoActiveGuard(l) ==
    \A u \in Threads : ~Holds(u, l) /\ ~(lk[u] = l /\ pc[u] # "idle")

\* LockCellInternal::force_unlock is called on a TicketLock under its
\* documented precondition, no active guard: self.owner.store(!0); the
\* fetch_add on current_ticket and exit_critical_section follow as in the drop
\* of a guard.
ForceUnlock(t, l) ==
    /\ Running(t)
    /\ pc[t] = "idle"
    /\ l \in TicketLocks
    /\ NoActiveGuard(l)
    /\ current_ticket[l] <= MaxTicket
    /\ owner' = [owner EXCEPT ![l] = NoOwner]
    /\ lk' = [lk EXCEPT ![t] = l]
    /\ pc' = [pc EXCEPT ![t] = "tl_rel"]
    /\ UNCHANGED <<current_ticket, next_ticket, access_count, preemtable,
                   coreVars, ticket, cur_count, old_disable_count, cs_flag,
                   guardVars, histVars, bootVars, unwrapVars, otherVars>>

\* ---------------------------------------------- specification: SpecForce
\* The cores of SpecTL, which may also call force_unlock when the lock has
\* no active guard.
NextForce ==
    \/ NextTL
    \/ \E c \in Cores : ForceUnlock(<<c, 0>>, TLLock)

SpecForce == InitTL /\ [][NextForce]_vars

\* C27: with force_unlock called only when there is no active guard, the
\* lock stays usable: current_ticket <= next_ticket, a lock() call that finds
\* the lock free of other callers passes the spin loop at its first test, and
\* with no call in progress the lock is unlocked and every core's
\* interrupts_disable_count is what it was.
C27_ForceUnlockUsable ==
    /\ \A l \in TicketLocks :
          /\ current_ticket[l] <= next_ticket[l]
          /\ \A t \in Threads :
                (lk[t] = l /\ pc[t] = "tl_spin" /\ FreeOfOthers(t, l) /\ ~Holds(t, l))
                    => SpinDone(t)
          /\ NoActiveGuard(l) => owner[l] = NoOwner
    /\ (\A l \in TicketLocks : NoActiveGuard(l)) =>
          \A c \in Cores : interrupts_disable_count[c] = base_count[c]

\* ----------------------------------------------- specification: SpecPics
\* One core from its boot section on: interrupts::init takes and drops the
\* PICS lock, enables interrupts, and from then on normal code and the
\* interrupt handlers both lock() PICS, a non-preemptable TicketLock.
PicsLock == "T1"

\* The locals!().enable_interrupts() of interrupts::init: the fetch_sub that
\* takes off the count CoreLocals::new started with; the sti follows.
InitEnableInterrupts(t) ==
    /\ Running(t)
    /\ LevelOf(t) = 0
    /\ pc[t] = "idle"
    /\ NoGuards(t)
    /\ base_count[CoreOf(t)] = 1
    /\ old_disable_count' =
          [old_disable_count EXCEPT ![t] = interrupts_disable_count[CoreOf(t)]]
    /\ interrupts_disable_count' =
          [interrupts_disable_count EXCEPT ![CoreOf(t)] = @ - 1]
    /\ base_count' = [base_count EXCEPT ![CoreOf(t)] = @ - 1]
    /\ pc' = [pc EXCEPT ![t] = "sti"]
    /\ UNCHANGED <<lockVars, interrupt_depth, intr_flag, level, lk, ticket,
                   cur_count, cs_flag, guardVars, draw_seq, grant_seq,
                   irq_at_call, enter_flag, read_net, bootVars, unwrapVars, otherVars>>

InitPics ==
    /\ InitLocks
    /\ InitCalls
    /\ InitBoot
    /\ InitUnwrap
    /\ preemtable = [l \in Locks |-> l # PicsLock]
    /\ base_count = [c \in Cores |-> IF c = IrqCore THEN 1 ELSE 0]
    /\ interrupts_disable_count = base_count
    /\ intr_flag = [c \in Cores |-> base_count[c] = 0]

\* No context calls lock() while it holds the guard itself; the spin loop's
\* body (SpinCheckOwner) is left out because C28 shows no state enters it.
NextPics ==
    \/ IrqFire(IrqCore)
    \/ InitEnableInterrupts(<<IrqCore, 0>>)
    \/ \E k \in Levels :
          \/ (~Holds(<<IrqCore, k>>, PicsLock)) /\ CallLock(<<IrqCore, k>>, PicsLock)
          \/ DropGuard(<<IrqCore, k>>, PicsLock)
          \/ CriticalSectionStep(<<IrqCore, k>>)
          \/ DrawTicket(<<IrqCore, k>>)
          \/ SpinLoad(<<IrqCore, k>>)
          \/ StoreOwner(<<IrqCore, k>>)
          \/ ReleaseTicket(<<IrqCore, k>>)
          \/ InterruptStep(<<IrqCore, k>>)

SpecPics == InitPics /\ [][NextPics]_vars

\* The contexts a handler context t has interrupted.
Interrupted(t) == {u \in Threads : CoreOf(u) = CoreOf(t) /\ LevelOf(u) < LevelOf(t)}

\* C28: on one core whose normal code and handlers lock() the same
\* non-preemptable TicketLock, a running handler never finds the lock held by
\* the code it interrupted (its lock() starts with the lock free and its spin
\* test succeeds at once), the deadlock panic and the spin loop's body are
\* never reached, and interrupts_disable_count is its initial value plus the
\* sections still open, so a handler that has released leaves it as found.
C28_SingleCoreInterruptSafe ==
    /\ \A t \in Threads :
          /\ pc[t] \notin {"deadlock", "tl_chk", "panic"}
          /\ pc[t] = "tl_spin" => SpinDone(t)
          /\ (LevelOf(t) > 0 /\ pc[t] # "off") =>
                \A u \in Interrupted(t) :
                    /\ ~Holds(u, PicsLock)
                    /\ pc[u] \in {"idle", "enter", "cli"}
          /\ (LevelOf(t) > 0 /\ lk[t] = PicsLock /\ pc[t] \in {"enter", "cli", "tl_draw"}) =>
                /\ owner[PicsLock] = NoOwner
                /\ current_ticket[PicsLock] = next_ticket[PicsLock]
          /\ (LevelOf(t) > 0 /\ pc[t] \in {"irq_inc", "iret"}) =>
                interrupts_disable_count[CoreOf(t)] =
                    base_count[CoreOf(t)]
                    + Cardinality({u \in Interrupted(t) : pc[u] = "cli"})
    /\ \A c \in Cores :
          interrupts_disable_count[c] = base_count[c] + Outstanding(c)

C28_Witness ==
    \E t \in Threads :
        /\ LevelOf(t) > 0
        /\ pc[t] = "idle"
        /\ GuardLive(t, PicsLock)
        /\ owner[PicsLock] = core_id(t)
        /\ current_ticket[PicsLock] = 1
        /\ base_count[CoreOf(t)] = 0
        /\ interrupts_disable_count[CoreOf(t)] = 2
        /\ \E u \in Interrupted(t) : pc[u] = "cli" /\ lk[u] = PicsLock

\* ------------------------------------------------------ per-core identity
\* get_core_locals / locals!(): the record the core's GS base points to.
get_core_locals(c) == IF gs_base[c] = "boot" THEN BOOT_CORE_LOCALS ELSE core_local[c]

\* core_boot has returned on core c.
CoreBootReturned(c) ==
    bpc[c] \in {"section", "exc", "init_reg", "double_reg", "init_gs",
                "init_adv", "init_rdy", "booted"}

\* Core c has re-pointed GS base in init.
PastInitGs(c) ==
    \/ bpc[c] \in {"init_adv", "init_rdy", "booted"}
    \/ bpc[c] \in {"init_reg", "double_reg"} /\ init_calls[c] > 1

\* C29: once core_boot has returned on a core, locals!().core_id on that core
\* is the CoreId core_boot gave it, in the boot section (boot record) and
\* after init (its own record); no two such cores observe the same id; and
\* from init's set_gs_base on the core's lookup never yields the boot record
\* again, whose changes are those of the core inside the boot section or the
\* boot_lock advance of an init.
C29_CoreIdentity ==
    [][/\ \A c \in Cores :
             /\ CoreBootReturned(c) =>
                   /\ gs_base[c] \in {"boot", "own"}
                   /\ get_core_locals(c).core_id = boot_id[c]
                   /\ boot_id[c] # NoCoreId
             /\ PastInitGs(c) <=> gs_base[c] = "own"
             /\ gs_base[c] = "own" => gs_base'[c] = "own" /\ core_local'[c] = core_local[c]
       /\ \A c, d \in Cores :
             (c # d /\ CoreBootReturned(c) /\ CoreBootReturned(d)) =>
                 get_core_locals(c).core_id # get_core_locals(d).core_id
       /\ BOOT_CORE_LOCALS' # BOOT_CORE_LOCALS =>
             \E c \in Cores :
                 \/ gs_base'[c] = "boot" /\ bpc[c] \in {"setup", "section", "exc"}
                 \/ bpc[c] = "init_adv" /\
                    BOOT_CORE_LOCALS' = [BOOT_CORE_LOCALS EXCEPT !.boot_lock = (@ + 1) % U8Range]
      ]_vars

C29_Witness ==
    \E c, d \in Cores :
        /\ bpc[c] = "booted"
        /\ gs_base[c] = "own"
        /\ get_core_locals(c).core_id = 0
        /\ bpc[d] = "section"
        /\ gs_base[d] = "boot"
        /\ get_core_locals(d).core_id = 1
        /\ boot_held[d] = 1

\* -------------------------------------------- specification: SpecBootIrq
\* The boot sequence up to the end of crate::init: after core_locals::init
\* the core takes and drops non-preemptable locks on its own record (PICS in
\* interrupts::init) and then enables interrupts.

\* A non-preemptable lock is taken after init: locals!() is the core's own
\* record, disable_interrupts' fetch_add and cli.
LocalsEnterCritical(c) ==
    /\ bpc[c] = "booted"
    /\ boot_held[c] < MaxBootLocks
    /\ core_local' = [core_local EXCEPT ![c].interrupts_disable_count = @ + 1]
    /\ intr_flag' = [intr_flag EXCEPT ![c] = FALSE]
    /\ boot_held' = [boot_held EXCEPT ![c] = @ + 1]
    /\ UNCHANGED <<lockVars, interrupt_depth, interrupts_disable_count, level, callVars,
                   guardVars, histVars, unwrapVars, CORE_ID_COUNTER, CORE_READY_COUNT,
                   CORE_LOCALS_VADDRS, BOOT_CORE_LOCALS, bpc, boot_id, init_arg,
                   init_calls, gs_base, pass_seq, adv_seq, otherVars>>

\* Its guard is dropped: enable_interrupts' fetch_sub on the core's own
\* record, and the sti if its test passes.
LocalsExitCritical(c) ==
    /\ bpc[c] = "booted"
    /\ boot_held[c] > 0
    /\ core_local' = [core_local EXCEPT
                        ![c].interrupts_disable_count = CountAfterEnable(@)]
    /\ intr_flag' = IF LocalsMayEnable(core_local[c])
                    THEN [intr_flag EXCEPT ![c] = TRUE] ELSE intr_flag
    /\ boot_held' = [boot_held EXCEPT ![c] = @ - 1]
    /\ UNCHANGED <<lockVars, interrupt_depth, interrupts_disable_count, level, callVars,
                   guardVars, histVars, unwrapVars, CORE_ID_COUNTER, CORE_READY_COUNT,
                   CORE_LOCALS_VADDRS, BOOT_CORE_LOCALS, bpc, boot_id, init_arg,
                   init_calls, gs_base, pass_seq, adv_seq, otherVars>>

\* CoreLocals::interrupts_enabled on record rec.
interrupts_enabled(rec) == rec.interrupts_disable_count = 0

\* The end of interrupts::init, the PICS guard dropped:
\* locals!().enable_interrupts() and assert!(locals!().interrupts_enabled()).
InterruptsInit(c) ==
    /\ bpc[c] = "booted"
    /\ boot_held[c] = 0
    /\ core_local' = [core_local EXCEPT
                        ![c].interrupts_disable_count = CountAfterEnable(@)]
    /\ intr_flag' = IF LocalsMayEnable(core_local[c])
                    THEN [intr_flag EXCEPT ![c] = TRUE] ELSE intr_flag
    /\ bpc' = [bpc EXCEPT ![c] = IF interrupts_enabled(core_local'[c])
                                 THEN "running" ELSE "not_enabled"]
    /\ UNCHANGED <<lockVars, interrupt_depth, interrupts_disable_count, level, callVars,
                   guardVars, histVars, unwrapVars, CORE_ID_COUNTER, CORE_READY_COUNT,
                   CORE_LOCALS_VADDRS, BOOT_CORE_LOCALS, boot_id, init_arg,
                   init_calls, gs_base, boot_held, pass_seq, adv_seq, otherVars>>

NextBootIrq ==
    \/ NextBoot
    \/ \E c \in Cores :
          \/ LocalsEnterCritical(c)
          \/ LocalsExitCritical(c)
          \/ InterruptsInit(c)

SpecBootIrq == InitTL /\ [][NextBootIrq]_vars

\* Core c is between the cli of core_boot and the enable_interrupts of
\* interrupts::init.
Booting(c) == bpc[c] \notin {"start", "running", "not_enabled"}

\* C30: from core_boot until the enable_interrupts of interrupts::init the
\* core's interrupts are off: the record its lookup yields (the boot record,
\* then its own) holds 1 plus the non-preemptable sections the core has open,
\* so no release takes the count to 0; after interrupts::init the count is 0,
\* the assertion passes and interrupts are on.
C30_BootInterruptsOff ==
    \A c \in Cores :
        /\ Booting(c) => ~intr_flag[c]
        /\ (CoreBootReturned(c) /\ Booting(c)) =>
              get_core_locals(c).interrupts_disable_count = 1 + boot_held[c]
        /\ bpc[c] # "not_enabled"
        /\ bpc[c] = "running" =>
              /\ gs_base[c] = "own"
              /\ core_local[c].interrupts_disable_count = 0
              /\ intr_flag[c]

C30_Witness ==
    \E c, d \in Cores :
        /\ bpc[c] = "running"
        /\ intr_flag[c]
        /\ core_local[c].interrupts_disable_count = 0
        /\ bpc[d] = "booted"
        /\ boot_held[d] = 1
        /\ core_local[d].interrupts_disable_count = 2
        /\ ~intr_flag[d]

\* ---------------------------------------------- specification: FairBoot
\* The boot sequence under fair scheduling: a core keeps executing the step
\* of core_boot or init it is at.  What a core does in the boot section, and
\* whether it ever leaves it, is up to the caller.
BootProgress(c) ==
    \/ FetchCoreId(c)
    \/ BootSpin(c)
    \/ BootSetup(c)
    \/ BootAssert(c)
    \/ InitRegister(c)
    \/ InitSetGs(c)
    \/ InitAdvance(c)
    \/ InitReady(c)

FairBoot ==
    /\ InitTL
    /\ [][NextBoot]_vars
    /\ \A c \in Cores : WF_vars(BootProgress(c))

\* Every core that passes the handshake eventually calls init.
InitEventuallyCalled ==
    \A c \in Cores : (bpc[c] = "setup") ~> (bpc[c] = "init_reg")

\* C31: a core in the handshake spin waits for a value boot_lock has not yet
\* passed, and if every core that passes the handshake eventually calls init,
\* every core that calls core_boot returns from it.
C31_HandshakeProgress ==
    /\ [](\A c \in Cores :
            bpc[c] = "spin" => BOOT_CORE_LOCALS.boot_lock <= boot_id[c])
    /\ InitEventuallyCalled =>
          \A c \in Cores : (bpc[c] = "spin") ~> CoreBootReturned(c)

C31_Witness ==
    \E c, d \in Cores :
        /\ boot_id[c] = 0
        /\ bpc[c] = "init_rdy"
        /\ boot_id[d] = 1
        /\ bpc[d] = "section"
        /\ Len(pass_seq) = 2
        /\ BOOT_CORE_LOCALS.boot_lock = 1

\* ------------------------------------------------------------- exceptions
\* The exception handlers of interrupts.rs take no lock of the kernel; they
\* run on top of whatever the core was executing, which resumes when the
\* last of them has returned.
MaxExcDepth == 2

NoException(c) == exc_stack[c] = << >>

\* The innermost exception handler of core c.
TopException(c) == exc_stack[c][Len(exc_stack[c])]

\* The stack of core c with its innermost handler at position p.
SetTopException(c, p) ==
    [exc_stack EXCEPT ![c][Len(exc_stack[c])].pc = p]

\* The CPU raises an exception (a breakpoint, say) through an interrupt gate:
\* RFLAGS is pushed, IF is cleared and the handler starts.
ExceptionFire(c) ==
    /\ Len(exc_stack[c]) < MaxExcDepth
    /\ exc_stack' = [exc_stack EXCEPT ![c] =
                        Append(@, [saved_if |-> intr_flag[c], pc |-> "exc_inc",
                                   entry_depth |-> exception_depth[c]])]
    /\ intr_flag' = [intr_flag EXCEPT ![c] = FALSE]
    /\ UNCHANGED <<lockVars, interrupt_depth, interrupts_disable_count, level,
                   callVars, guardVars, histVars, bootVars, unwrapVars,
                   exception_depth, kbVars, heapVars>>

\* let _guard = crate::locals!().inc_exception();
IncException(c) ==
    /\ ~NoException(c)
    /\ TopException(c).pc = "exc_inc"
    /\ exception_depth' = [exception_depth EXCEPT ![c] = @ + 1]
    /\ exc_stack' = SetTopException(c, "body")
    /\ UNCHANGED <<kernelVars, bootVars, unwrapVars, kbVars, heapVars>>

\* The exception handler ends: _guard is dropped.
DecException(c) ==
    /\ ~NoException(c)
    /\ TopException(c).pc = "body"
    /\ exception_depth' = [exception_depth EXCEPT ![c] = AutoRefCounterDrop(@)]
    /\ exc_stack' = SetTopException(c, "iret")
    /\ UNCHANGED <<kernelVars, bootVars, unwrapVars, kbVars, heapVars>>

\* iret: the pushed RFLAGS is restored and the interrupted code resumes.
ExceptionIret(c) ==
    /\ ~NoException(c)
    /\ TopException(c).pc = "iret"
    /\ intr_flag' = [intr_flag EXCEPT ![c] = TopException(c).saved_if]
    /\ exc_stack' = [exc_stack EXCEPT ![c] = SubSeq(@, 1, Len(@) - 1)]
    /\ UNCHANGED <<lockVars, interrupt_depth, interrupts_disable_count, level,
                   callVars, guardVars, histVars, bootVars, unwrapVars,
                   exception_depth, kbVars, heapVars>>

\* ----------------------------------------------- specification: SpecNest
\* The core of SpecPics, on which exceptions are raised as well, in normal
\* code, in interrupt handlers and in exception handlers.
NextNest ==
    \/ ExceptionFire(IrqCore)
    \/ IncException(IrqCore)
    \/ DecException(IrqCore)
    \/ ExceptionIret(IrqCore)
    \/ NoException(IrqCore) /\ NextPics

SpecNest == InitPics /\ [][NextNest]_vars

\* The interrupt handlers of core c whose inc_interrupt guard is live.
InterruptGuards(c) ==
    {t \in Threads : CoreOf(t) = c /\ LevelOf(t) > 0
                     /\ pc[t] \notin {"off", "irq_inc", "iret"}}

\* The exception handlers of core c whose inc_exception guard is live.
ExceptionGuards(c) ==
    {i \in DOMAIN exc_stack[c] : exc_stack[c][i].pc = "body"}

InTicketCall(t, l) ==
    /\ lk[t] = l
    /\ pc[t] \in {"enter", "tl_draw", "tl_spin", "tl_chk", "tl_own", "tl_rel", "exit"}

\* The interrupt state of core c is left as it is.
InterruptStateKept(c) ==
    /\ interrupts_disable_count'[c] = interrupts_disable_count[c]
    /\ intr_flag'[c] = intr_flag[c]

CoreHolds(t, l) == \E u \in Threads : CoreOf(u) = CoreOf(t) /\ Holds(u, l)

\* C35: a context that is in the spin loop of lock() sees its own core id in
\* owner only if its core holds the guard, and the deadlock panic is reached
\* only by a caller whose core holds the guard.
C35_NoFalseDeadlock ==
    \A t \in Threads :
        /\ (lk[t] \in TicketLocks /\ pc[t] \in {"tl_spin", "tl_chk"}
            /\ owner[lk[t]] = core_id(t)) => CoreHolds(t, lk[t])
        /\ pc[t] = "deadlock" => CoreHolds(t, lk[t])
        /\ \A l \in TicketLocks :
              owner[l] # NoOwner =>
                  \E u \in Threads : core_id(u) = owner[l] /\ Holds(u, l)

C35_Witness ==
    \E t, u \in Threads :
        /\ CoreOf(t) # CoreOf(u)
        /\ pc[t] = "tl_chk"
        /\ lk[t] = TLLock
        /\ ~CoreHolds(t, TLLock)
        /\ GuardLive(u, TLLock)
        /\ owner[TLLock] = core_id(u)
        /\ current_ticket[TLLock] = 1

\* ------------------------------------- interrupt flag and disable count
\* Core c is servicing an interrupt: a handler has been entered through the
\* interrupt gate and its iret has not yet been executed.
Servicing(c) == level[c] > 0

\* The normal code of core c is between the fetch_add and the cli of
\* disable_interrupts, or between the fetch_sub and the test of
\* enable_interrupts.
InsideCountUpdate(c) == pc[<<c, 0>>] \in {"cli", "sti"}

\* What CoreLocals::interrupts_enabled returns on core c.
CountSaysEnabled(c) == interrupts_disable_count[c] = 0

\* C36: on a core that is not servicing an interrupt and is not inside
\* disable_interrupts or enable_interrupts, the interrupt flag is set exactly
\* if interrupts_disable_count is 0.
C36_FlagMatchesCount ==
    \A c \in Cores :
        (~Servicing(c) /\ ~InsideCountUpdate(c))
            => (intr_flag[c] <=> CountSaysEnabled(c))

C36_Witness ==
    /\ ~Servicing(IrqCore)
    /\ pc[<<IrqCore, 0>>] = "idle"
    /\ pc[<<IrqCore, 1>>] = "off"
    /\ Holds(<<IrqCore, 0>>, PicsLock)
    /\ base_count[IrqCore] = 0
    /\ interrupts_disable_count[IrqCore] = 1
    /\ ~intr_flag[IrqCore]
    /\ current_ticket[PicsLock] = 2

\* ----------------------------------------------------------- boot counters
\* get_started_core_count() and get_ready_core_count().
get_started_core_count == CORE_ID_COUNTER
get_ready_core_count == CORE_READY_COUNT

\* The cores whose init() has executed BOOT_CORE_LOCALS.boot_lock.fetch_add(1).
AdvancedCores ==
    {c \in Cores : \E k \in 1 .. Len(adv_seq) : adv_seq[k] = boot_id[c]}

\* The cores whose init() has executed CORE_READY_COUNT.fetch_add(1).
ReadyCores == {c \in AdvancedCores : bpc[c] # "init_rdy"}

\* C37: CORE_READY_COUNT <= boot_lock <= CORE_ID_COUNTER in every state of the
\* boot protocol; boot_lock is the number of cores that have executed the
\* advance in init(), CORE_READY_COUNT the number that went on to the ready
\* count; get_ready_core_count() never exceeds get_started_core_count().
C37_BootCounters ==
    /\ CORE_READY_COUNT <= BOOT_CORE_LOCALS.boot_lock
    /\ BOOT_CORE_LOCALS.boot_lock <= CORE_ID_COUNTER
    /\ BOOT_CORE_LOCALS.boot_lock = Len(adv_seq)
    /\ BOOT_CORE_LOCALS.boot_lock = Cardinality(AdvancedCores)
    /\ CORE_READY_COUNT = Cardinality(ReadyCores)
    /\ get_ready_core_count <= get_started_core_count

C37_Witness ==
    /\ CORE_ID_COUNTER = 2
    /\ BOOT_CORE_LOCALS.boot_lock = 2
    /\ CORE_READY_COUNT = 1
    /\ \E c, d \in Cores : bpc[c] = "init_rdy" /\ bpc[d] = "double_reg"

\* ------------------------------------------------------- the keyboard task
\* The capacity of SCANCODE_QUEUE (ArrayQueue::new(100) in the source) and the
\* number of keyboard interrupts of a behaviour.
QueueCap == 2
MaxScancodes == 4

\* The scancodes, told apart by the order in which the keyboard sent them.
Scancodes == 1 .. MaxScancodes

Range(q) == {q[i] : i \in DOMAIN q}

kbFrame == <<kernelVars, bootVars, unwrapVars, exception_depth, exc_stack,
             heapVars>>

\* ScancodeStream::new(): SCANCODE_QUEUE.try_init_once(|| ArrayQueue::new(..)).
StreamNew ==
    /\ ppc = "new"
    /\ kb_init' = TRUE
    /\ ppc' = "poll"
    /\ UNCHANGED <<kbFrame, kb_queue, kb_waker, kb_woken, kpc, kb_code,
                   kb_pushed, kb_got, kb_dropped>>

\* keyboard_interrupt_handler reads the scancode from port 0x60 and calls
\* add_scancode with it.
KeyboardInterrupt ==
    /\ kpc = "idle"
    /\ Len(kb_pushed) + Len(kb_dropped) < MaxScancodes
    /\ kb_code' = Len(kb_pushed) + Len(kb_dropped) + 1
    /\ kpc' = "push"
    /\ UNCHANGED <<kbFrame, kb_init, kb_queue, kb_waker, kb_woken, ppc,
                   kb_pushed, kb_got, kb_dropped>>

\* ArrayQueue::push fails exactly if the queue holds its capacity.
QueueFull(q) == Len(q) >= QueueCap

\* add_scancode: SCANCODE_QUEUE.try_get() and queue.push(scancode).  An
\* uninitialized or full queue drops the scancode with a warning and
\* add_scancode returns; otherwise WAKER.wake() follows.
AddPush ==
    /\ kpc = "push"
    /\ IF kb_init /\ ~QueueFull(kb_queue)
       THEN /\ kb_queue' = Append(kb_queue, kb_code)
            /\ kb_pushed' = Append(kb_pushed, kb_code)
            /\ kpc' = "wake"
            /\ UNCHANGED kb_dropped
       ELSE /\ kb_dropped' = Append(kb_dropped, kb_code)
            /\ kpc' = "idle"
            /\ UNCHANGED <<kb_queue, kb_pushed>>
    /\ UNCHANGED <<kbFrame, kb_init, kb_waker, kb_woken, ppc, kb_code, kb_got>>

\* WAKER.wake(): AtomicWaker takes the registered waker, if any, and wakes it.
AddWake ==
    /\ kpc = "wake"
    /\ kb_woken' = (kb_woken \/ kb_waker)
    /\ kb_waker' = FALSE
    /\ kpc' = "idle"
    /\ UNCHANGED <<kbFrame, kb_init, kb_queue, ppc, kb_code,
                   kb_pushed, kb_got, kb_dropped>>

\* poll_next, fast path: queue.pop().  Ready(Some(scancode)) goes to the
\* caller, whose loop polls again; on None the waker is registered next.
PollPop ==
    /\ ppc = "poll"
    /\ IF kb_queue # << >>
       THEN /\ kb_got' = Append(kb_got, Head(kb_queue))
            /\ kb_queue' = Tail(kb_queue)
            /\ ppc' = "poll"
       ELSE /\ ppc' = "register"
            /\ UNCHANGED <<kb_got, kb_queue>>
    /\ UNCHANGED <<kbFrame, kb_init, kb_waker, kb_woken, kpc, kb_code,
                   kb_pushed, kb_dropped>>

\* WAKER.register(cx.waker())
PollRegister ==
    /\ ppc = "register"
    /\ kb_waker' = TRUE
    /\ ppc' = "pop2"
    /\ UNCHANGED <<kbFrame, kb_init, kb_queue, kb_woken, kpc, kb_code,
                   kb_pushed, kb_got, kb_dropped>>

\* Mutant of CheckAgain: the queue is not looked at after the registration.
CheckAgainNever(q) == Len(q) > Len(q)

\* The second queue.pop() of poll_next finds a scancode.
CheckAgain(q) == Len(q) > 0

\* poll_next, after the registration: queue.pop() again; Some leads to
\* WAKER.take(), None returns Poll::Pending.
PollPopAgain ==
    /\ ppc = "pop2"
    /\ IF CheckAgain(kb_queue)
       THEN /\ kb_got' = Append(kb_got, Head(kb_queue))
            /\ kb_queue' = Tail(kb_queue)
            /\ ppc' = "take"
       ELSE /\ ppc' = "pending"
            /\ UNCHANGED <<kb_got, kb_queue>>
    /\ UNCHANGED <<kbFrame, kb_init, kb_waker, kb_woken, kpc, kb_code,
                   kb_pushed, kb_dropped>>

\* WAKER.take() and Poll::Ready(Some(scancode)); the caller's loop polls again.
PollTake ==
    /\ ppc = "take"
    /\ kb_waker' = FALSE
    /\ ppc' = "poll"
    /\ UNCHANGED <<kbFrame, kb_init, kb_queue, kb_woken, kpc, kb_code,
                   kb_pushed, kb_got, kb_dropped>>

\* The task whose waker was woken is polled again.
PollWoken ==
    /\ ppc = "pending"
    /\ kb_woken
    /\ kb_woken' = FALSE
    /\ ppc' = "poll"
    /\ UNCHANGED <<kbFrame, kb_init, kb_queue, kb_waker, kpc, kb_code,
                   kb_pushed, kb_got, kb_dropped>>

PollStep == PollPop \/ PollRegister \/ PollPopAgain \/ PollTake \/ PollWoken

NextKb ==
    \/ StreamNew
    \/ KeyboardInterrupt
    \/ AddPush
    \/ AddWake
    \/ PollPop
    \/ PollRegister
    \/ PollPopAgain
    \/ PollTake
    \/ PollWoken

\* Every interleaving of the keyboard interrupt with the keyboard task; a
\* handler that was entered runs to its end and a task that can run does.
FairKb ==
    /\ InitTL
    /\ [][NextKb]_vars
    /\ WF_vars(AddPush \/ AddWake)
    /\ WF_vars(PollStep)

\* C38: a pushed scancode is never stranded.  Every pushed scancode is in the
\* queue or was returned by poll_next, in the order of the pushes; while the
\* task is pending with a scancode in the queue, its waker has been woken or
\* is registered and add_scancode is about to wake it; every scancode in the
\* queue is eventually returned by poll_next; a push on a full queue drops the
\* scancode and add_scancode returns without a wake.
C38_NoLostWakeup ==
    /\ [](kb_got \o kb_queue = kb_pushed)
    /\ []((ppc = "pending" /\ kb_queue # << >> /\ ~kb_woken)
              => (kpc = "wake" /\ kb_waker))
    /\ \A k \in Scancodes : (k \in Range(kb_queue)) ~> (k \in Range(kb_got))
    /\ [][(kpc = "push" /\ kpc' # "push" /\ QueueFull(kb_queue))
              => /\ kpc' = "idle"
                 /\ kb_dropped' = Append(kb_dropped, kb_code)
                 /\ UNCHANGED <<kb_queue, kb_waker, kb_woken, kb_pushed>>]_vars

C38_Witness ==
    /\ ppc = "pending"
    /\ kb_woken
    /\ ~kb_waker
    /\ kpc = "idle"
    /\ Len(kb_queue) = QueueCap
    /\ kb_got = << >>
    /\ kb_dropped = <<QueueCap + 1>>

\* ------------------------------------------------------ the bump allocator
\* The heap init is called with, and the layouts alloc is called with: sizes
\* up to MaxSize and one size above every address of the heap, alignments
\* that are powers of two.
HeapStart == 4
HeapSize == 6
MaxSize == 2
HugeSize == HeapStart + HeapSize + 1
Sizes == (1 .. MaxSize) \cup {HugeSize}
Aligns == {1, 2, 4}

heapFrame == <<kernelVars, bootVars, unwrapVars, exception_depth, exc_stack,
               kbVars>>

\* BumpAllocator::init(heap_start, heap_size)
BumpInit ==
    /\ ~heap_ready
    /\ bump' = [bump EXCEPT !.start = HeapStart,
                            !.end = HeapStart + HeapSize,
                            !.ptr = HeapStart + HeapSize]
    /\ heap_ready' = TRUE
    /\ UNCHANGED <<heapFrame, heap_live, heap_last>>

\* new_ptr & !(align - 1), for align a power of two.
AlignDown(p, align) == p - (p % align)

\* Mutant of OutOfMemory: the lower bound of the heap is not tested.
OutOfMemoryNever(new_ptr) == new_ptr < Null

\* new_ptr < start
OutOfMemory(new_ptr) == new_ptr < bump.start

\* The value alloc returns for a layout: null if ptr.checked_sub(size) is
\* None or the rounded address is below start, the rounded address otherwise.
AllocResult(size, align) ==
    IF size > bump.ptr THEN Null
    ELSE IF OutOfMemory(AlignDown(bump.ptr - size, align)) THEN Null
    ELSE AlignDown(bump.ptr - size, align)

\* GlobalAlloc::alloc(layout), under the allocator's lock.
BumpAlloc(size, align) ==
    /\ LET ret == AllocResult(size, align)
       IN /\ heap_last' = [op |-> "alloc", size |-> size, align |-> align,
                           ret |-> ret, flip |-> ~heap_last.flip]
          /\ IF ret = Null
             THEN UNCHANGED <<bump, heap_live>>
             ELSE /\ bump' = [bump EXCEPT !.ptr = ret, !.allocations = @ + 1]
                  /\ heap_live' = Append(heap_live, [ptr |-> ret, size |-> size])
    /\ UNCHANGED <<heapFrame, heap_ready>>

\* BumpAllocator::is_last_allocation
is_last_allocation(p) == bump.ptr = p

RemoveAt(q, i) == SubSeq(q, 1, i - 1) \o SubSeq(q, i + 1, Len(q))

\* GlobalAlloc::dealloc(ptr, layout) for a live allocation and its layout.
BumpDealloc(i) ==
    /\ i \in DOMAIN heap_live
    /\ LET a == heap_live[i]
           n == bump.allocations - 1
       IN /\ bump' = [bump EXCEPT
                         !.allocations = n,
                         !.ptr = IF is_last_allocation(a.ptr) THEN a.ptr + a.size
                                 ELSE IF n = 0 THEN bump.end
                                 ELSE @]
          /\ heap_last' = [op |-> "dealloc", size |-> a.size, align |-> 1,
                           ret |-> a.ptr, flip |-> ~heap_last.flip]
    /\ heap_live' = RemoveAt(heap_live, i)
    /\ UNCHANGED <<heapFrame, heap_ready>>

NextBump ==
    \/ BumpInit
    \/ \E size \in Sizes, align \in Aligns : BumpAlloc(size, align)
    \/ \E i \in 1 .. HeapSize : BumpDealloc(i)

SpecBump == InitTL /\ [][NextBump]_vars

\* The bytes of a live allocation.
Bytes(a) == a.ptr .. (a.ptr + a.size - 1)

\* Some address of the heap below the bump pointer takes the layout.
Fits(size, align) ==
    \E p \in bump.start .. bump.ptr :
        p % align = 0 /\ p + size <= bump.ptr

\* C39: on an initialized BumpAllocator start <= ptr <= end in every state,
\* the allocation count is the number of live allocations, every live
\* allocation lies between ptr and end and no two of them overlap, and an
\* alloc whose request does not fit returns null and leaves ptr and the
\* allocation count unchanged (one that fits returns a fitting address).
C39_BumpBounds ==
    /\ [](heap_ready => (bump.start <= bump.ptr /\ bump.ptr <= bump.end))
    /\ [](bump.allocations = Len(heap_live))
    /\ [](\A i \in DOMAIN heap_live :
              /\ Bytes(heap_live[i]) \subseteq bump.ptr .. (bump.end - 1)
              /\ \A j \in DOMAIN heap_live :
                    i # j => Bytes(heap_live[i]) \cap Bytes(heap_live[j]) = {})
    /\ [][(heap_ready /\ heap_last'.flip # heap_last.flip
           /\ heap_last'.op = "alloc")
          => IF Fits(heap_last'.size, heap_last'.align)
             THEN /\ heap_last'.ret # Null
                  /\ bump'.ptr = heap_last'.ret
                  /\ bump'.allocations = bump.allocations + 1
             ELSE /\ heap_last'.ret = Null
                  /\ UNCHANGED <<bump, heap_live>>]_vars

C39_Witness ==
    /\ heap_last.op = "alloc"
    /\ heap_last.ret = Null
    /\ heap_last.size = 2
    /\ bump.ptr = bump.start + 1
    /\ bump.allocations = 3
    /\ \E i \in DOMAIN heap_live : heap_live[i].ptr > bump.ptr + 2

\* C40: whenever every allocation of an initialized BumpAllocator has been
\* deallocated (the allocation count is 0), the bump pointer equals end.
C40_ReclaimedWhenEmpty ==
    (heap_ready /\ bump.allocations = 0) => bump.ptr = bump.end

====
